---- MODULE Spec2Model ----
(***************************************************************************)
(* Verification model of the cas repository: the generic DAG<T>            *)
(* container (dag.cpp), the checked Rational type (rat.cpp, utils.cpp)     *)
(* and the expression graph eDAG (edag.cpp).                               *)
(***************************************************************************)
EXTENDS Integers, Sequences, FiniteSets, TLC

VARIABLES
    graph,        \* a DAG<T> instance: [nodes |-> set, adj |-> map node -> set]
                  \* (eDAG::graph when driven through the eDAG)
    root,         \* eDAG::root        (0 models the empty string)
    nodes,        \* eDAG::nodes       id -> eNode
    orderedc,     \* eDAG::orderedc    id -> ordered child ids
    leaf_intern,  \* eDAG::leaf_intern key -> id
    op_intern,    \* eDAG::op_intern   key -> id
    counter,      \* static int counter of eDAG::generate_id
    expr,         \* the text handed to eDAG::parse
    postfix,      \* parse: the postfix tokens not yet folded
    node_stack,   \* parse: the stack of node ids
    p1, p2,       \* two Rational objects (num, den)
    last,         \* the last operation called and whether it threw
    ret           \* the value the last operation returned

vars == <<graph, root, nodes, orderedc, leaf_intern, op_intern, counter,
          expr, postfix, node_stack, p1, p2, last, ret>>

parseVars == <<expr, postfix, node_stack>>
edagVars == <<root, nodes, orderedc, leaf_intern, op_intern, counter, parseVars>>
ratVars == <<p1, p2>>

----------------------------------------------------------------------------
(* Bounds *)

MaxNode == 3

\* width in bits of the signed integer type standing for int64_t
IntBits == 3

Node == 1..MaxNode

----------------------------------------------------------------------------
(* Small helpers *)

Min(S) == CHOOSE x \in S : \A y \in S : x <= y

EmptyMap == [x \in {} |-> {}]

MapPut(m, k, v) == [x \in (DOMAIN m) \cup {k} |-> IF x = k THEN v ELSE m[x]]

NoRet == [kind |-> "none"]

----------------------------------------------------------------------------
(* DAG<T>  (dag.hpp / dag.cpp)                                             *)
(* std::unordered_set iterates in an unspecified order; the model walks    *)
(* sets in ascending order.                                                *)

EmptyDAG == [nodes |-> {}, adj |-> EmptyMap]

RECURSIVE has_cycle_helper(_, _, _, _)
RECURSIVE has_cycle_neighbors(_, _, _, _)

\* the for loop of has_cycle_helper over it->second
has_cycle_neighbors(g, rem, visiting, visited) ==
    IF rem = {}
    THEN [r |-> FALSE, visiting |-> visiting, visited |-> visited]
    ELSE LET neighbor == Min(rem)
             h == has_cycle_helper(g, neighbor, visiting, visited)
         IN  IF h.r THEN h
             ELSE has_cycle_neighbors(g, rem \ {neighbor}, h.visiting, h.visited)

has_cycle_helper(g, node, visiting, visited) ==
    IF node \in visiting
    THEN [r |-> TRUE, visiting |-> visiting, visited |-> visited]
    ELSE IF node \in visited
    THEN [r |-> FALSE, visiting |-> visiting, visited |-> visited]
    ELSE LET v1 == visiting \cup {node}
         IN  IF node \notin DOMAIN g.adj
             THEN [r |-> FALSE, visiting |-> v1, visited |-> visited]
             ELSE LET h == has_cycle_neighbors(g, g.adj[node], v1, visited)
                  IN  IF h.r THEN h
                      ELSE [r |-> FALSE,
                            visiting |-> h.visiting \ {node},
                            visited |-> h.visited \cup {node}]

RECURSIVE has_cycle_loop(_, _, _, _)
\* the for loop of has_cycle over nodes
has_cycle_loop(g, rem, visiting, visited) ==
    IF rem = {} THEN FALSE
    ELSE LET node == Min(rem)
         IN  IF node \notin visited
             THEN LET h == has_cycle_helper(g, node, visiting, visited)
                  IN  IF h.r THEN TRUE
                      ELSE has_cycle_loop(g, rem \ {node}, h.visiting, h.visited)
             ELSE has_cycle_loop(g, rem \ {node}, visiting, visited)

has_cycle(g) == has_cycle_loop(g, g.nodes, {}, {})

add_node(g, node) ==
    [nodes |-> g.nodes \cup {node},
     adj   |-> IF node \in DOMAIN g.adj THEN g.adj ELSE MapPut(g.adj, node, {})]

\* remove_node without the loop that erases the edges into node
remove_node_keep_in_edges(g, node) ==
    IF node \notin g.nodes THEN g
    ELSE [nodes |-> g.nodes \ {node},
          adj   |-> [k \in (DOMAIN g.adj) \ {node} |-> g.adj[k]]]

remove_node(g, node) ==
    IF node \notin g.nodes THEN g
    ELSE [nodes |-> g.nodes \ {node},
          adj   |-> [k \in (DOMAIN g.adj) \ {node} |-> g.adj[k] \ {node}]]

\* adj[src].insert(dest): operator[] creates the entry when it is missing
adj_insert(g, src, dest) ==
    [g EXCEPT !.adj = MapPut(g.adj, src,
                         (IF src \in DOMAIN g.adj THEN g.adj[src] ELSE {}) \cup {dest})]

\* adj[src].erase(dest)
adj_erase(g, src, dest) ==
    [g EXCEPT !.adj = MapPut(g.adj, src,
                         (IF src \in DOMAIN g.adj THEN g.adj[src] ELSE {}) \ {dest})]

\* add_edge without the cycle check and rollback
add_edge_unchecked(g, src, dest) ==
    [g |-> adj_insert(add_node(add_node(g, src), dest), src, dest), threw |-> FALSE]

\* add_edge whose rollback forgets the endpoints it added
add_edge_keep_endpoints(g, src, dest) ==
    LET g3 == adj_insert(add_node(add_node(g, src), dest), src, dest)
    IN  IF has_cycle(g3) THEN [g |-> adj_erase(g3, src, dest), threw |-> TRUE]
        ELSE [g |-> g3, threw |-> FALSE]

\* returns the graph after the call and whether invalid_argument was thrown
add_edge(g, src, dest) ==
    LET src_e  == src \in g.nodes
        dest_e == dest \in g.nodes
        g1 == IF ~src_e THEN add_node(g, src) ELSE g
        g2 == IF ~dest_e THEN add_node(g1, dest) ELSE g1
        g3 == adj_insert(g2, src, dest)
    IN  IF has_cycle(g3)
        THEN LET g4 == adj_erase(g3, src, dest)
                 g5 == IF ~src_e THEN remove_node(g4, src) ELSE g4
                 g6 == IF ~dest_e THEN remove_node(g5, dest) ELSE g5
             IN  [g |-> g6, threw |-> TRUE]
        ELSE [g |-> g3, threw |-> FALSE]

remove_edge(g, src, dest) ==
    IF src \in DOMAIN g.adj THEN adj_erase(g, src, dest) ELSE g

has_edge(g, src, dest) == src \in DOMAIN g.adj /\ dest \in g.adj[src]

has_node(g, node) == node \in g.nodes

get_neighbors(g, node) ==
    IF ~has_node(g, node) THEN {}
    ELSE IF node \in DOMAIN g.adj THEN g.adj[node] ELSE {}

get_indegree(g, node) == Cardinality({p \in DOMAIN g.adj : node \in g.adj[p]})

size(g) == Cardinality(g.nodes)

DAG_clear(g) == EmptyDAG

\* the first loop of topological_sort: push every node of indegree 0
RECURSIVE topo_init(_, _, _)
topo_init(g, rem, S) ==
    IF rem = {} THEN S
    ELSE LET node == Min(rem)
         IN  topo_init(g, rem \ {node},
                       IF get_indegree(g, node) = 0 THEN Append(S, node) ELSE S)

\* the body of "for (T n : it->second)" for the elements of rem: in_n is
\* counted while the edge top -> n is still in new_adj, then the edge is erased
RECURSIVE topo_succ(_, _, _, _)
topo_succ(rem, top, new_adj, S) ==
    IF rem = {} THEN [new_adj |-> new_adj, S |-> S]
    ELSE LET n    == Min(rem)
             in_n == Cardinality({p \in DOMAIN new_adj : n \in new_adj[p]})
             na   == [new_adj EXCEPT ![top] = @ \ {n}]
         IN  topo_succ(rem \ {n}, top, na, IF in_n = 0 THEN Append(S, n) ELSE S)

\* new_adj[top].erase(n) erases the element the range-for iterator points
\* at, so the following ++ reads a freed hash node: undefined behaviour.
\* ub chooses what the build makes of it:
\*   "crash"  the process dies on the dangling pointer, nothing is returned
\*   "end"    the dangling next pointer reads as null, the for loop ends
\*   "next"   the freed node still reads as before, the loop goes on
UBOutcome == {"crash", "end", "next"}

RECURSIVE topo_loop(_, _, _, _)
topo_loop(L, S, new_adj, ub) ==
    IF S = << >> THEN [crashed |-> FALSE, L |-> L]
    ELSE LET top == S[Len(S)]
             S1  == SubSeq(S, 1, Len(S) - 1)
             L1  == Append(L, top)
         IN  IF top \notin DOMAIN new_adj \/ new_adj[top] = {}
             THEN topo_loop(L1, S1, new_adj, ub)
             ELSE IF ub = "crash" THEN [crashed |-> TRUE, L |-> L1]
             ELSE LET rem == IF ub = "end" THEN {Min(new_adj[top])} ELSE new_adj[top]
                      r   == topo_succ(rem, top, new_adj, S1)
                  IN  topo_loop(L1, r.S, r.new_adj, ub)

topological_sort(g, ub) == topo_loop(<< >>, topo_init(g, g.nodes, << >>), g.adj, ub)

----------------------------------------------------------------------------
(* Initial values of the objects *)

InitParse ==
    /\ expr = ""
    /\ postfix = << >>
    /\ node_stack = << >>

InitEDAG ==
    /\ InitParse
    /\ root = 0
    /\ nodes = EmptyMap
    /\ orderedc = EmptyMap
    /\ leaf_intern = EmptyMap
    /\ op_intern = EmptyMap
    /\ counter = 0

InitRat ==
    /\ p1 = [num |-> 0, den |-> 1]
    /\ p2 = [num |-> 0, den |-> 1]

Called(op, args, threw) == [op |-> op, args |-> args, threw |-> threw]

----------------------------------------------------------------------------
(* SpecDag: a DAG<int> driven through its public interface *)

InitDag ==
    /\ graph = EmptyDAG
    /\ InitEDAG
    /\ InitRat
    /\ last = Called("init", << >>, FALSE)
    /\ ret = NoRet

DoAddNode(n) ==
    /\ graph' = add_node(graph, n)
    /\ last' = Called("add_node", <<n>>, FALSE)
    /\ ret' = NoRet
    /\ UNCHANGED <<edagVars, ratVars>>

DoRemoveNode(n) ==
    /\ graph' = remove_node(graph, n)
    /\ last' = Called("remove_node", <<n>>, FALSE)
    /\ ret' = NoRet
    /\ UNCHANGED <<edagVars, ratVars>>

DoAddEdge(s, d) ==
    /\ LET r == add_edge(graph, s, d)
       IN  /\ graph' = r.g
           /\ last' = Called("add_edge", <<s, d>>, r.threw)
    /\ ret' = NoRet
    /\ UNCHANGED <<edagVars, ratVars>>

DoRemoveEdge(s, d) ==
    /\ graph' = remove_edge(graph, s, d)
    /\ last' = Called("remove_edge", <<s, d>>, FALSE)
    /\ ret' = NoRet
    /\ UNCHANGED <<edagVars, ratVars>>

DoClear ==
    /\ graph' = DAG_clear(graph)
    /\ last' = Called("clear", << >>, FALSE)
    /\ ret' = NoRet
    /\ UNCHANGED <<edagVars, ratVars>>

DoTopologicalSort ==
    /\ \E ub \in UBOutcome :
          LET r == topological_sort(graph, ub)
          IN  ret' = [kind |-> "topo", crashed |-> r.crashed, L |-> r.L]
    /\ last' = Called("topological_sort", << >>, FALSE)
    /\ UNCHANGED <<graph, edagVars, ratVars>>

NextDag ==
    \/ \E n \in Node : DoAddNode(n)
    \/ \E n \in Node : DoRemoveNode(n)
    \/ \E s \in Node, d \in Node : DoAddEdge(s, d)
    \/ \E s \in Node, d \in Node : DoRemoveEdge(s, d)
    \/ DoClear
    \/ DoTopologicalSort

SpecDag == InitDag /\ [][NextDag]_vars

----------------------------------------------------------------------------
(* Properties of DAG<T> *)

\* the nodes reachable from n by one or more edges, by closure of adj
RECURSIVE ReachClosure(_, _)
ReachClosure(g, S) ==
    LET T == S \cup UNION {g.adj[x] : x \in S \cap DOMAIN g.adj}
    IN  IF T = S THEN S ELSE ReachClosure(g, T)

Reachable(g, n) ==
    ReachClosure(g, IF n \in DOMAIN g.adj THEN g.adj[n] ELSE {})

Acyclic(g) == \A n \in DOMAIN g.adj : n \notin Reachable(g, n)

\* C1: after any sequence of add_node, remove_node, add_edge, remove_edge
\* and clear calls the stored graph has no directed cycle (no node reaches
\* itself, self-loops included) and has_cycle() is false.
C1_NoCycle == Acyclic(graph) /\ ~has_cycle(graph)

\* an add_edge call succeeded on a path of two earlier edges
C1_Witness ==
    /\ last.op = "add_edge" /\ ~last.threw
    /\ \E a \in graph.nodes, b \in graph.nodes, c \in graph.nodes :
          /\ a # b /\ b # c /\ a # c
          /\ has_edge(graph, a, b) /\ has_edge(graph, b, c) /\ has_edge(graph, a, c)

\* the edge src -> dest would close a cycle in g
WouldCloseCycle(g, src, dest) == src = dest \/ src \in Reachable(g, dest)

\* C2: add_edge(src, dest) that would close a cycle (src = dest included)
\* throws, and a throwing add_edge leaves the node set and the edge set
\* exactly as they were before the call.
C2_FailedAddEdgeRollsBack ==
    [][(last'.op = "add_edge") =>
          /\ WouldCloseCycle(graph, last'.args[1], last'.args[2]) => last'.threw
          /\ last'.threw => (graph' = graph)]_vars

\* a failed add_edge(C, A) after A -> B and B -> C, both edges still there
C2_Witness ==
    /\ last.op = "add_edge" /\ last.threw
    /\ \E a \in graph.nodes, b \in graph.nodes :
          /\ a # b /\ b # last.args[1] /\ a # last.args[1]
          /\ last.args[2] = a
          /\ has_edge(graph, a, b) /\ has_edge(graph, b, last.args[1])
          /\ ~has_edge(graph, last.args[1], a)

\* C23: remove_node(k) removes k and every edge into or out of k and
\* nothing else: afterwards k is no node and no endpoint of an edge, the
\* other nodes and the edges between them are as before, and size() is
\* one less; on an absent k the graph is unchanged.
C23_RemoveNodeFrame ==
    [][(last'.op = "remove_node") =>
          /\ ~has_node(graph', last'.args[1])
          /\ \A x \in Node :
                 /\ ~has_edge(graph', x, last'.args[1])
                 /\ ~has_edge(graph', last'.args[1], x)
          /\ \A x \in Node \ {last'.args[1]} :
                 /\ has_node(graph', x) = has_node(graph, x)
                 /\ \A y \in Node \ {last'.args[1]} :
                        has_edge(graph', x, y) = has_edge(graph, x, y)
          /\ has_node(graph, last'.args[1]) => size(graph') = size(graph) - 1
          /\ ~has_node(graph, last'.args[1]) => graph' = graph]_vars

\* remove_node took a node out of a graph that keeps an edge
C23_Witness ==
    /\ last.op = "remove_node"
    /\ ~has_node(graph, last.args[1])
    /\ size(graph) = MaxNode - 1
    /\ \E x \in graph.nodes, y \in graph.nodes : has_edge(graph, x, y)

\* topological_sort returned L: every node exactly once, sources first exactly once, sources before targets
IsLinearExtension(g, L) ==
    /\ Len(L) = size(g)
    /\ {L[i] : i \in 1..Len(L)} = g.nodes
    /\ \A i \in 1..Len(L), j \in 1..Len(L) :
          has_edge(g, L[i], L[j]) => i < j

\* C3: topological_sort() on any acyclic graph returns every node exactly
\* once (length = size()) with u before v for every edge u -> v.
C3_TopologicalSortIsLinearExtension ==
    (last.op = "topological_sort")
        => (~ret.crashed /\ IsLinearExtension(graph, ret.L))

----------------------------------------------------------------------------
(* Rational  (rat.hpp / rat.cpp, utils.cpp)                                *)

IntMin == -(2 ^ (IntBits - 1))
IntMax == (2 ^ (IntBits - 1)) - 1
IntRange == IntMin..IntMax

\* C++ integer division and remainder (truncation toward zero), b # 0
CDiv(a, b) ==
    LET q == (IF a < 0 THEN -a ELSE a) \div (IF b < 0 THEN -b ELSE b)
    IN  IF (a < 0) = (b < 0) THEN q ELSE -q

CMod(a, b) == a - b * CDiv(a, b)

\* utils::gcd; called on non-negative arguments only (see RationalOf)
RECURSIVE gcd(_, _)
gcd(a, b) ==
    IF a < b THEN gcd(b, a)
    ELSE IF b = 0 THEN a
    ELSE gcd(b, CMod(a, b))

builtin_mul_overflow(a, b) ==
    [ovf |-> a * b < IntMin \/ a * b > IntMax, val |-> a * b]

builtin_add_overflow(a, b) ==
    [ovf |-> a + b < IntMin \/ a + b > IntMax, val |-> a + b]

builtin_sub_overflow(a, b) ==
    [ovf |-> a - b < IntMin \/ a - b > IntMax, val |-> a - b]

\* outcomes of a constructor or operator call
Value(num, den) == [kind |-> "value", num |-> num, den |-> den]
Thrown(what)    == [kind |-> what]
\* undefined behaviour: -x and std::abs(x) for x = INT64_MIN overflow, and
\* x / 0 traps.  g++ builds wrap to INT64_MIN, on which utils::gcd recurses
\* for ever (stack overflow, or an endless loop once the tail call is
\* optimised): the call returns no value and throws nothing.
Undefined == [kind |-> "ub"]

\* Rational::normalize on the fields (num, den)
normalize(num, den) ==
    IF num = IntMin \/ den = IntMin THEN Undefined
    ELSE LET g == gcd(IF num < 0 THEN -num ELSE num, IF den < 0 THEN -den ELSE den)
         IN  IF g = 0 THEN Undefined
             ELSE Value(CDiv(num, g), CDiv(den, g))

\* Rational::Rational(int64_t num, int64_t den)
RationalOf(num, den) ==
    IF num < 0 /\ den < 0
    THEN IF num = IntMin \/ den = IntMin THEN Undefined
         ELSE normalize(-num, -den)
    ELSE IF (num < 0 /\ den > 0) \/ (num > 0 /\ den < 0)
    THEN IF num = IntMin \/ den = IntMin THEN Undefined
         ELSE normalize(-(IF num < 0 THEN -num ELSE num), IF den < 0 THEN -den ELSE den)
    ELSE normalize(num, den)

\* Rational::operator+
Rational_add(x, y) ==
    LET a == x.num  b == x.den  c == y.num  d == y.den
        n1 == builtin_mul_overflow(a, d)
        n2 == builtin_mul_overflow(b, c)
        d1 == builtin_mul_overflow(b, d)
    IN  IF n1.ovf \/ n2.ovf \/ d1.ovf THEN Thrown("overflow")
        ELSE LET n3 == builtin_add_overflow(n1.val, n2.val)
             IN  IF n3.ovf THEN Thrown("overflow")
                 ELSE RationalOf(n3.val, d1.val)

\* Rational::operator-
Rational_sub(x, y) ==
    LET a == x.num  b == x.den  c == y.num  d == y.den
        n1 == builtin_mul_overflow(a, d)
        n2 == builtin_mul_overflow(b, c)
        d1 == builtin_mul_overflow(b, d)
    IN  IF n1.ovf \/ n2.ovf \/ d1.ovf THEN Thrown("overflow")
        ELSE LET n3 == builtin_sub_overflow(n1.val, n2.val)
             IN  IF n3.ovf THEN Thrown("overflow")
                 ELSE RationalOf(n3.val, d1.val)

\* Rational::operator*
Rational_mul(x, y) ==
    LET a == x.num  b == x.den  c == y.num  d == y.den
        n1 == builtin_mul_overflow(a, c)
        d1 == builtin_mul_overflow(b, d)
    IN  IF n1.ovf \/ d1.ovf THEN Thrown("overflow")
        ELSE RationalOf(n1.val, d1.val)

is_zero(x) == x.num = 0

\* Rational::operator/
Rational_div(x, y) ==
    IF is_zero(y) THEN Thrown("divzero")
    ELSE LET a == x.num  b == x.den  c == y.num  d == y.den
             n1 == builtin_mul_overflow(a, d)
             d1 == builtin_mul_overflow(b, c)
         IN  IF n1.ovf \/ d1.ovf THEN Thrown("overflow")
             ELSE RationalOf(n1.val, d1.val)

ArithOps == {"+", "-", "*", "/"}

Apply(op, x, y) ==
    CASE op = "+" -> Rational_add(x, y)
      [] op = "-" -> Rational_sub(x, y)
      [] op = "*" -> Rational_mul(x, y)
      [] op = "/" -> Rational_div(x, y)

Fields(r) == [num |-> r.num, den |-> r.den]

CmpOps == {"==", "!=", "<", "<=", ">", ">="}

\* Rational::operator== != < <= > >=
Rational_compare(cmp, x, y) ==
    LET a == x.num  b == x.den  c == y.num  d == y.den
        a1 == builtin_mul_overflow(a, d)
        a2 == builtin_mul_overflow(b, c)
    IN  IF a1.ovf \/ a2.ovf THEN Thrown("overflow")
        ELSE [kind |-> "bool",
              b |-> CASE cmp = "==" -> a1.val = a2.val
                      [] cmp = "!=" -> a1.val # a2.val
                      [] cmp = "<"  -> a1.val < a2.val
                      [] cmp = "<=" -> a1.val <= a2.val
                      [] cmp = ">"  -> a1.val > a2.val
                      [] cmp = ">=" -> a1.val >= a2.val]

----------------------------------------------------------------------------
(* SpecRat: two Rational objects, built by the integer-pair constructor   *)
(* and combined by the arithmetic operators (p1 = p1 op p2)               *)

InitRatSpec ==
    /\ graph = EmptyDAG
    /\ InitEDAG
    /\ InitRat
    /\ last = Called("init", << >>, FALSE)
    /\ ret = NoRet

\* p1 = Rational(num, den), called with a non-zero denominator
DoConstruct(num, den) ==
    /\ den # 0
    /\ LET r == RationalOf(num, den)
       IN  /\ ret' = r
           /\ p1' = IF r.kind = "value" THEN Fields(r) ELSE p1
    /\ last' = Called("Rational", << >>, FALSE)
    /\ UNCHANGED <<graph, edagVars, p2>>

\* std::swap(p1, p2)
DoSwap ==
    /\ p1' = p2
    /\ p2' = p1
    /\ last' = Called("swap", << >>, FALSE)
    /\ ret' = NoRet
    /\ UNCHANGED <<graph, edagVars>>

\* p1 = p1 op p2
DoArith(op) ==
    /\ LET r == Apply(op, p1, p2)
       IN  /\ ret' = r
           /\ p1' = IF r.kind = "value" THEN Fields(r) ELSE p1
           /\ last' = Called(op, <<p1, p2>>, r.kind \in {"overflow", "divzero"})
    /\ UNCHANGED <<graph, edagVars, p2>>

\* p1 cmp p2
DoCompare(cmp) ==
    /\ \E r \in {Rational_compare(cmp, p1, p2)} :
           /\ ret' = r
           /\ last' = Called(cmp, <<p1, p2>>, r.kind = "overflow")
    /\ UNCHANGED <<graph, edagVars, ratVars>>

NextRat ==
    \/ \E num \in IntRange, den \in IntRange : DoConstruct(num, den)
    \/ DoSwap
    \/ \E op \in ArithOps : DoArith(op)
    \/ \E cmp \in CmpOps : DoCompare(cmp)

SpecRat == InitRatSpec /\ [][NextRat]_vars

----------------------------------------------------------------------------
(* Properties of Rational *)

Abs(x) == IF x < 0 THEN -x ELSE x

\* greatest common divisor of two naturals, not both zero
MathGcd(a, b) == CHOOSE g \in 1..(IF a > b THEN a ELSE b) :
                    /\ a % g = 0 /\ b % g = 0
                    /\ \A h \in (g + 1)..(IF a > b THEN a ELSE b) : ~(a % h = 0 /\ b % h = 0)

Normalized(r) ==
    /\ r.den > 0
    /\ MathGcd(Abs(r.num), r.den) = 1
    /\ (r.num = 0 => r.den = 1)

\* C5: every Rational produced by the integer-pair constructor (non-zero
\* denominator) or returned by + - * / has denominator > 0, numerator and
\* denominator coprime, and zero stored as 0/1.
C5_RationalNormalized ==
    /\ Normalized(p1) /\ Normalized(p2)
    /\ (ret.kind = "value") => Normalized(ret)

\* the exact value of x op y as a pair (numerator, denominator), den # 0
Exact(op, x, y) ==
    CASE op = "+" -> <<x.num * y.den + x.den * y.num, x.den * y.den>>
      [] op = "-" -> <<x.num * y.den - x.den * y.num, x.den * y.den>>
      [] op = "*" -> <<x.num * y.num, x.den * y.den>>
      [] op = "/" -> <<x.num * y.den, x.den * y.num>>

\* C6: each of + - * / on two Rationals either returns the mathematically
\* exact result or fails with an overflow error (division by the zero
\* Rational: a division error); no call ends in a wrapped or wrong value
\* or in no value at all.  (That a returned value is normalized is C5.)
C6_ExactOrOverflow ==
    (last.op \in ArithOps /\ Normalized(last.args[1]) /\ Normalized(last.args[2]))
        => \/ ret.kind = "overflow"
           \/ ret.kind = "divzero" /\ last.op = "/" /\ is_zero(last.args[2])
           \/ /\ ret.kind = "value"
              /\ ret.den # 0
              /\ LET e == Exact(last.op, last.args[1], last.args[2])
                 IN  ret.num * e[2] = e[1] * ret.den

\* the sign of a non-zero denominator
Sgn(x) == IF x < 0 THEN -1 ELSE 1

\* the comparison cmp on the mathematical values of x and y (den # 0)
MathCompare(cmp, x, y) ==
    LET l == x.num * y.den * Sgn(x.den) * Sgn(y.den)
        r == y.num * x.den * Sgn(x.den) * Sgn(y.den)
    IN  CASE cmp = "==" -> l = r
          [] cmp = "!=" -> l # r
          [] cmp = "<"  -> l < r
          [] cmp = "<=" -> l <= r
          [] cmp = ">"  -> l > r
          [] cmp = ">=" -> l >= r

\* C14: for Rationals reached through the constructor and the arithmetic
\* operators, each of == != < <= > >= returns the truth value of the same
\* comparison on the mathematical values, whenever the cross products do
\* not overflow.
C14_ComparisonsAreMathematical ==
    (last.op \in CmpOps /\ ret.kind = "bool") =>
        ret.b = MathCompare(last.op, p1, p2)

----------------------------------------------------------------------------
(* math_utils  (edag.cpp)                                                  *)
(* A std::string is a TLA+ string; its characters are one-character        *)
(* strings.                                                                *)

CharAt(str, j) == SubSeq(str, j + 1, j + 1)   \* str[j], j counted from 0

DigitChars == {"0", "1", "2", "3", "4", "5", "6", "7", "8", "9"}

LetterChars ==
    {"a", "b", "c", "d", "e", "f", "g", "h", "i", "j", "k", "l", "m",
     "n", "o", "p", "q", "r", "s", "t", "u", "v", "w", "x", "y", "z",
     "A", "B", "C", "D", "E", "F", "G", "H", "I", "J", "K", "L", "M",
     "N", "O", "P", "Q", "R", "S", "T", "U", "V", "W", "X", "Y", "Z"}

is_digit(c) == c \in DigitChars

is_letter(c) == c \in LetterChars

is_op(c) == c \in {"+", "-", "*", "/", "^"}

isspace(c) == c = " "

string_to_op(op) ==
    CASE op = "+"    -> "ADD"
      [] op = "-"    -> "SUBTRACT"
      [] op = "neg"  -> "NEGATE"
      [] op = "*"    -> "MULTIPLY"
      [] op = "/"    -> "DIVIDE"
      [] op = "^"    -> "POWER"
      [] op = "sin"  -> "SIN"
      [] op = "cos"  -> "COS"
      [] op = "tan"  -> "TAN"
      [] op = "log"  -> "LOG"
      [] op = "exp"  -> "EXP"
      [] op = "sqrt" -> "SQRT"
      [] op = "abs"  -> "ABS"
      [] OTHER       -> "UNKNOWN"

op_to_string(op) ==
    CASE op = "ADD"      -> "+"
      [] op = "SUBTRACT" -> "-"
      [] op = "MULTIPLY" -> "*"
      [] op = "DIVIDE"   -> "/"
      [] op = "POWER"    -> "^"
      [] op = "NEGATE"   -> "-"
      [] op = "SIN"      -> "sin"
      [] op = "COS"      -> "cos"
      [] op = "TAN"      -> "tan"
      [] op = "LOG"      -> "log"
      [] op = "EXP"      -> "exp"
      [] op = "SQRT"     -> "sqrt"
      [] op = "ABS"      -> "abs"
      [] OTHER           -> "UNKNOWN"

get_op_precedence(op) ==
    CASE op \in {"ADD", "SUBTRACT"}    -> 1
      [] op \in {"MULTIPLY", "DIVIDE"} -> 2
      [] op = "POWER"                  -> 3
      [] op \in {"NEGATE", "SIN", "COS", "TAN", "LOG", "EXP", "SQRT", "ABS"} -> 4
      [] OTHER                         -> 0

is_unary(op) == op \in {"NEGATE", "SIN", "COS", "TAN", "LOG", "EXP", "SQRT", "ABS"}

is_left_assoc(op) == op \in {"ADD", "SUBTRACT", "MULTIPLY", "DIVIDE"}

\* the for loop of is_num from index j; returns has_digit, or FALSE on a
\* character that is neither a digit nor the first dot
RECURSIVE is_num_loop(_, _, _, _)
is_num_loop(str, j, has_digit, has_dot) ==
    IF j >= Len(str) THEN has_digit
    ELSE IF is_digit(CharAt(str, j)) THEN is_num_loop(str, j + 1, TRUE, has_dot)
    ELSE IF CharAt(str, j) = "." /\ ~has_dot THEN is_num_loop(str, j + 1, has_digit, TRUE)
    ELSE FALSE

is_num(str) ==
    IF Len(str) = 0 THEN FALSE
    ELSE LET start == IF CharAt(str, 0) = "-" THEN 1 ELSE 0
         IN  IF start >= Len(str) THEN FALSE
             ELSE is_num_loop(str, start, FALSE, FALSE)

is_var(str) ==
    IF Len(str) = 0 THEN FALSE
    ELSE /\ \A j \in 0..(Len(str) - 1) :
              LET c == CharAt(str, j) IN is_letter(c) \/ is_digit(c) \/ c = "_"
         /\ (is_letter(CharAt(str, 0)) \/ CharAt(str, 0) = "_")

----------------------------------------------------------------------------
(* eDAG::tokenize and eDAG::infix2postfix                                  *)

\* the for loop of tokenize from index j
RECURSIVE tokenize_loop(_, _, _, _)
tokenize_loop(text, j, tokens, curr) ==
    IF j >= Len(text)
    THEN IF curr # "" THEN Append(tokens, curr) ELSE tokens
    ELSE LET c == CharAt(text, j)
             flushed == IF curr # "" THEN Append(tokens, curr) ELSE tokens
         IN  IF isspace(c) THEN tokenize_loop(text, j + 1, flushed, "")
             ELSE IF is_op(c) \/ c = "(" \/ c = ")"
             THEN tokenize_loop(text, j + 1, Append(flushed, c), "")
             ELSE tokenize_loop(text, j + 1, tokens, curr \o c)

tokenize(text) == tokenize_loop(text, 0, << >>, "")

\* stacks are sequences with the top at the end
Top(stk) == stk[Len(stk)]
Pop(stk) == SubSeq(stk, 1, Len(stk) - 1)

\* the while loop of the operator branch: pop while the top is not "(" and
\* has higher precedence, or equal precedence and op is left associative
RECURSIVE pop_higher(_, _, _, _, _)
pop_higher(pfix, ops, precedences, prec, op) ==
    IF /\ ops # << >> /\ Top(ops) # "("
       /\ precedences # << >>
       /\ (Top(precedences) > prec
             \/ (Top(precedences) = prec /\ is_left_assoc(op)))
    THEN pop_higher(Append(pfix, Top(ops)), Pop(ops), Pop(precedences), prec, op)
    ELSE [pfix |-> pfix, ops |-> ops, precedences |-> precedences]

\* the while loop of the ")" branch
RECURSIVE pop_to_paren(_, _, _)
pop_to_paren(pfix, ops, precedences) ==
    IF ops # << >> /\ Top(ops) # "("
    THEN pop_to_paren(Append(pfix, Top(ops)), Pop(ops), Pop(precedences))
    ELSE [pfix |-> pfix, ops |-> ops, precedences |-> precedences]

\* the final while loop: drain ops, bottom of the stack last
RECURSIVE drain(_, _)
drain(pfix, ops) ==
    IF ops = << >> THEN pfix ELSE drain(Append(pfix, Top(ops)), Pop(ops))

\* unary_minus that takes "-" as unary at the start of the input only
unary_minus_start_only(tokens, j) ==
    LET current == tokens[j + 1]
    IN  IF current = "-" /\ j = 0 THEN "neg" ELSE current

\* the reclassification of "-" at position j (0-based)
unary_minus(tokens, j) ==
    LET current == tokens[j + 1]
    IN  IF current = "-"
        THEN LET is_unary_context ==
                     IF j = 0 THEN TRUE
                     ELSE LET prev == tokens[j]
                          IN  prev = "(" \/ string_to_op(prev) # "UNKNOWN"
             IN  IF is_unary_context THEN "neg" ELSE current
        ELSE current

RECURSIVE infix2postfix_loop(_, _, _, _, _)
infix2postfix_loop(tokens, j, pfix, ops, precedences) ==
    IF j >= Len(tokens) THEN drain(pfix, ops)
    ELSE LET token   == tokens[j + 1]
             current == unary_minus(tokens, j)
         IN  IF is_num(current)
             THEN infix2postfix_loop(tokens, j + 1, Append(pfix, current), ops, precedences)
             ELSE IF string_to_op(current) # "UNKNOWN"
             THEN LET op   == string_to_op(current)
                      prec == get_op_precedence(op)
                      r    == pop_higher(pfix, ops, precedences, prec, op)
                  IN  infix2postfix_loop(tokens, j + 1, r.pfix,
                                         Append(r.ops, current),
                                         Append(r.precedences, prec))
             ELSE IF current = "("
             THEN infix2postfix_loop(tokens, j + 1, pfix,
                                     Append(ops, token), Append(precedences, 0))
             ELSE IF current = ")"
             THEN LET r  == pop_to_paren(pfix, ops, precedences)
                      o1 == IF r.ops # << >> THEN Pop(r.ops) ELSE r.ops
                      p1s == IF r.ops # << >> THEN Pop(r.precedences) ELSE r.precedences
                      fn == /\ o1 # << >>
                            /\ string_to_op(Top(o1)) # "UNKNOWN"
                            /\ is_unary(string_to_op(Top(o1)))
                  IN  IF fn
                      THEN infix2postfix_loop(tokens, j + 1, Append(r.pfix, Top(o1)),
                                              Pop(o1),
                                              IF p1s # << >> THEN Pop(p1s) ELSE p1s)
                      ELSE infix2postfix_loop(tokens, j + 1, r.pfix, o1, p1s)
             ELSE infix2postfix_loop(tokens, j + 1, Append(pfix, current), ops, precedences)

infix2postfix(tokens) == infix2postfix_loop(tokens, 0, << >>, << >>, << >>)

----------------------------------------------------------------------------
(* double values                                                           *)
(* A double is modelled by the exact rational it stands for; results that  *)
(* are not such a rational (functions of irrational value, the built-in    *)
(* constants, values beyond ExactLimit) are symbolic terms.                *)

Num(n, d) ==
    LET g == gcd(Abs(n), Abs(d))
        sg == IF d < 0 THEN -1 ELSE 1
    IN  [kind |-> "num", n |-> sg * (n \div g), d |-> sg * (d \div g)]

Sym(f, args) == [kind |-> "sym", f |-> f, args |-> args]

IsNum(v) == v.kind = "num"

\* products are kept exact while they stay below ExactLimit
ExactLimit == 1000000000

MulFits(x, y) == x = 0 \/ Abs(y) <= ExactLimit \div Abs(x)

AddFits(a, b) ==
    /\ IsNum(a) /\ IsNum(b)
    /\ LET g == gcd(a.d, b.d)
       IN  /\ MulFits(a.n, b.d \div g)
           /\ MulFits(b.n, a.d \div g)
           /\ MulFits(a.d, b.d \div g)

DAdd(a, b) ==
    IF AddFits(a, b)
    THEN LET g == gcd(a.d, b.d)
         IN  Num(a.n * (b.d \div g) + b.n * (a.d \div g), a.d * (b.d \div g))
    ELSE Sym("+", <<a, b>>)

DSub(a, b) ==
    IF AddFits(a, b)
    THEN LET g == gcd(a.d, b.d)
         IN  Num(a.n * (b.d \div g) - b.n * (a.d \div g), a.d * (b.d \div g))
    ELSE Sym("-", <<a, b>>)

DMul(a, b) ==
    IF IsNum(a) /\ IsNum(b) /\ MulFits(a.n, b.n) /\ MulFits(a.d, b.d)
    THEN Num(a.n * b.n, a.d * b.d)
    ELSE Sym("*", <<a, b>>)

\* b is not zero
DDiv(a, b) ==
    IF IsNum(a) /\ IsNum(b) /\ MulFits(a.n, b.d) /\ MulFits(a.d, b.n)
    THEN Num(a.n * b.d, a.d * b.n)
    ELSE Sym("/", <<a, b>>)

DNeg(a) == IF IsNum(a) THEN [a EXCEPT !.n = -a.n] ELSE Sym("neg", <<a>>)

DAbs(a) == IF IsNum(a) THEN [a EXCEPT !.n = Abs(a.n)] ELSE Sym("abs", <<a>>)

\* a comparison with zero that is never true
DIsZero_never(a) == FALSE

\* op_vals[1] == 0
DIsZero(a) == IsNum(a) /\ a.n = 0

RECURSIVE IntPow(_, _)
IntPow(b, e) == IF e = 0 THEN 1 ELSE b * IntPow(b, e - 1)

\* std::pow, exact for small integer exponents
DPow(a, b) ==
    IF /\ IsNum(a) /\ IsNum(b) /\ b.d = 1 /\ Abs(b.n) <= 9
       /\ Abs(a.n) <= 8 /\ a.d <= 8
       /\ (a.n = 0 => b.n >= 0)
    THEN IF b.n >= 0 THEN Num(IntPow(a.n, b.n), IntPow(a.d, b.n))
         ELSE Num(IntPow(a.d, -b.n), IntPow(a.n, -b.n))
    ELSE Sym("pow", <<a, b>>)

\* std::sin, cos, tan, log, exp, sqrt: exact where the result is rational
\* and the argument is 0 or 1, symbolic elsewhere
DFun(f, a) ==
    IF IsNum(a) /\ a.n = 0 /\ f \in {"sin", "tan", "sqrt"} THEN Num(0, 1)
    ELSE IF IsNum(a) /\ a.n = 0 /\ f \in {"cos", "exp"} THEN Num(1, 1)
    ELSE IF IsNum(a) /\ a.n = 1 /\ a.d = 1 /\ f = "log" THEN Num(0, 1)
    ELSE IF IsNum(a) /\ a.n = 1 /\ a.d = 1 /\ f = "sqrt" THEN Num(1, 1)
    ELSE Sym(f, <<a>>)

DigitVal(c) ==
    CASE c = "0" -> 0 [] c = "1" -> 1 [] c = "2" -> 2 [] c = "3" -> 3
      [] c = "4" -> 4 [] c = "5" -> 5 [] c = "6" -> 6 [] c = "7" -> 7
      [] c = "8" -> 8 [] c = "9" -> 9

\* std::stod on a token accepted by is_num: digits, at most one dot
RECURSIVE stod_loop(_, _, _, _, _)
stod_loop(str, j, n, d, after_dot) ==
    IF j >= Len(str) THEN <<n, d>>
    ELSE LET c == CharAt(str, j)
         IN  IF c = "." THEN stod_loop(str, j + 1, n, d, TRUE)
             ELSE stod_loop(str, j + 1, n * 10 + DigitVal(c),
                            IF after_dot THEN d * 10 ELSE d, after_dot)

stod(str) ==
    LET neg == CharAt(str, 0) = "-"
        r   == stod_loop(str, IF neg THEN 1 ELSE 0, 0, 1, FALSE)
    IN  Num(IF neg THEN -r[1] ELSE r[1], r[2])

\* std::to_string(double) prints with "%f": six digits after the point.
\* The string is modelled by what it shows: the sign, the integer part and
\* the six decimals, rounded to nearest on the seventh.
ToStringDigits == 6

\* the first k decimals of rem / d (rem < d), as one integer
RECURSIVE FracDigits(_, _, _, _)
FracDigits(rem, d, k, acc) ==
    IF k = 0 THEN acc
    ELSE FracDigits((rem * 10) % d, d, k - 1, acc * 10 + ((rem * 10) \div d))

to_string(val) ==
    LET w   == Abs(val.n) \div val.d
        f7  == FracDigits(Abs(val.n) % val.d, val.d, ToStringDigits + 1, 0)
        f6  == (f7 + 5) \div 10
        top == IntPow(10, ToStringDigits)
    IN  [neg |-> val.n < 0,
         int |-> IF f6 = top THEN w + 1 ELSE w,
         frac |-> IF f6 = top THEN 0 ELSE f6]

----------------------------------------------------------------------------
(* eDAG  (edag.hpp / edag.cpp)                                             *)
(* The operators below work on a record ed holding the fields of one eDAG  *)
(* and the static counter of generate_id.  A node id "node_<k>" is         *)
(* modelled by the integer k; the empty string (no root) by 0.             *)

eNode(t, sym, val, op, prec, unary) ==
    [type |-> t, symbol |-> sym, val |-> val, op |-> op,
     precedence |-> prec, is_unary |-> unary]

is_leaf(node) == node.type \in {"VARIABLE", "CONSTANT"}

EmptyEDAG(cnt) ==
    [graph |-> EmptyDAG, root |-> 0, nodes |-> EmptyMap, orderedc |-> EmptyMap,
     leaf_intern |-> EmptyMap, op_intern |-> EmptyMap, counter |-> cnt]

\* clear that forgets to reset root
clear_keep_root(ed) == [EmptyEDAG(ed.counter) EXCEPT !.root = ed.root]

\* eDAG::clear; the static counter is not a field and is kept
clear(ed) == EmptyEDAG(ed.counter)

\* the decimal digits of k >= 0, most significant first
RECURSIVE DecDigits(_)
DecDigits(k) == IF k < 10 THEN <<k>> ELSE Append(DecDigits(k \div 10), k % 10)

\* operator< of the strings "node_<a>" and "node_<b>"
RECURSIVE LexLess(_, _)
LexLess(x, y) ==
    IF y = << >> THEN FALSE
    ELSE IF x = << >> THEN TRUE
    ELSE IF Head(x) # Head(y) THEN Head(x) < Head(y)
    ELSE LexLess(Tail(x), Tail(y))

IdLess(a, b) == LexLess(DecDigits(a), DecDigits(b))

\* std::sort of a vector of ids
RECURSIVE SortIds(_)
SortIds(ids) ==
    IF ids = << >> THEN << >>
    ELSE LET m == CHOOSE i \in 1..Len(ids) :
                      \A j \in 1..Len(ids) : ~IdLess(ids[j], ids[i])
         IN  <<ids[m]>> \o SortIds(SubSeq(ids, 1, m - 1) \o SubSeq(ids, m + 1, Len(ids)))

\* is_comm that takes every operator as commutative
is_comm_all(op) == TRUE

is_comm(op) == op \in {"ADD", "MULTIPLY"}

is_assoc(op) == op \in {"ADD", "MULTIPLY"}

\* the key "var:<sym>" or "const:<to_string(val)>"
leaf_key(t, sym, val) ==
    IF t = "VARIABLE"
    THEN [pre |-> "var:", sym |-> sym, str |-> to_string(Num(0, 1))]
    ELSE [pre |-> "const:", sym |-> "", str |-> to_string(val)]

\* returns the eDAG after the call and the id
intern_leaf(ed, t, sym, val) ==
    LET key == leaf_key(t, sym, val)
    IN  IF key \in DOMAIN ed.leaf_intern
        THEN [ed |-> ed, id |-> ed.leaf_intern[key]]
        ELSE LET id   == ed.counter + 1
                 node == IF t = "VARIABLE"
                         THEN eNode("VARIABLE", sym, Num(0, 1), "UNKNOWN", 0, FALSE)
                         ELSE eNode("CONSTANT", sym, val, "UNKNOWN", 0, FALSE)
             IN  [ed |-> [ed EXCEPT !.counter = id,
                                    !.nodes = MapPut(@, id, node),
                                    !.graph = add_node(@, id),
                                    !.leaf_intern = MapPut(@, key, id)],
                  id |-> id]

\* make_op_key with the test of is_comm negated
make_op_key_negated(op, children) ==
    [op |-> op_to_string(op),
     ids |-> IF ~is_comm(op) THEN SortIds(children) ELSE children]

\* the key "<op_to_string(op)>|<id>,<id>,..."
make_op_key(op, children) ==
    [op |-> op_to_string(op),
     ids |-> IF is_comm(op) THEN SortIds(children) ELSE children]

\* a flattening loop that keeps one copy of a repeated operand
RECURSIVE flatten_unique(_, _, _, _)
flatten_unique(ed, op, ordered, flat) ==
    IF ordered = << >> THEN flat
    ELSE IF Head(ordered) \in {flat[k] : k \in 1..Len(flat)}
    THEN flatten_unique(ed, op, Tail(ordered), flat)
    ELSE flatten_unique(ed, op, Tail(ordered), Append(flat, Head(ordered)))

\* the flattening loop of intern_op_node
RECURSIVE flatten(_, _, _, _)
flatten(ed, op, ordered, flat) ==
    IF ordered = << >> THEN flat
    ELSE LET child_id == Head(ordered)
         IN  IF /\ child_id \in DOMAIN ed.nodes
                /\ ed.nodes[child_id].op = op
                /\ ~ed.nodes[child_id].is_unary
                /\ child_id \in DOMAIN ed.orderedc
             THEN flatten(ed, op, Tail(ordered), flat \o ed.orderedc[child_id])
             ELSE flatten(ed, op, Tail(ordered), Append(flat, child_id))

\* the loop "for child_id in ordered: graph.add_edge(id, child_id)"
RECURSIVE add_edges(_, _, _)
add_edges(g, id, ordered) ==
    IF ordered = << >> THEN [g |-> g, threw |-> FALSE]
    ELSE LET r == add_edge(g, id, Head(ordered))
         IN  IF r.threw THEN r ELSE add_edges(r.g, id, Tail(ordered))

\* intern_op_node without the associative flattening
intern_op_node_noflat(ed, op, sym, precedence, unary, children) ==
    LET ordered == children
        key == make_op_key(op, ordered)
    IN  IF key \in DOMAIN ed.op_intern
        THEN [ed |-> ed, id |-> ed.op_intern[key], threw |-> FALSE]
        ELSE LET id   == ed.counter + 1
                 node == eNode("OPERATION", sym, Num(0, 1), op, precedence, unary)
                 ed1  == [ed EXCEPT !.counter = id,
                                    !.nodes = MapPut(@, id, node),
                                    !.graph = add_node(@, id),
                                    !.orderedc = MapPut(@, id, ordered)]
                 r    == add_edges(ed1.graph, id, ordered)
             IN  [ed |-> [ed1 EXCEPT !.graph = r.g,
                                     !.op_intern = MapPut(@, key, id)],
                  id |-> id, threw |-> FALSE]

\* returns the eDAG after the call, the id, and whether graph.add_edge threw
intern_op_node(ed, op, sym, precedence, unary, children) ==
    LET ordered == IF is_assoc(op) THEN flatten(ed, op, children, << >>) ELSE children
        key == make_op_key(op, ordered)
    IN  IF key \in DOMAIN ed.op_intern
        THEN [ed |-> ed, id |-> ed.op_intern[key], threw |-> FALSE]
        ELSE LET id   == ed.counter + 1
                 node == eNode("OPERATION", sym, Num(0, 1), op, precedence, unary)
                 ed1  == [ed EXCEPT !.counter = id,
                                    !.nodes = MapPut(@, id, node),
                                    !.graph = add_node(@, id),
                                    !.orderedc = MapPut(@, id, ordered)]
                 r    == add_edges(ed1.graph, id, ordered)
             IN  IF r.threw
                 THEN [ed |-> [ed1 EXCEPT !.graph = r.g], id |-> 0, threw |-> TRUE]
                 ELSE [ed |-> [ed1 EXCEPT !.graph = r.g,
                                          !.op_intern = MapPut(@, key, id)],
                       id |-> id, threw |-> FALSE]

\* node_stack.push(id) with the id that intern_leaf returned in r
push_leaf(stack, r) ==
    [ed |-> r.ed, stack |-> Append(stack, r.id), threw |-> FALSE]

\* node_stack.push(op_id) with the id that intern_op_node returned in r,
\* unless it threw
push_op(stack, r) ==
    [ed |-> r.ed,
     stack |-> IF r.threw THEN stack ELSE Append(stack, r.id),
     threw |-> r.threw]

\* one iteration of the for loop of parse, on token
parse_step(ed, token, stack) ==
    IF is_num(token)
    THEN push_leaf(stack, intern_leaf(ed, "CONSTANT", token, stod(token)))
    ELSE IF is_var(token) /\ string_to_op(token) = "UNKNOWN"
    THEN push_leaf(stack, intern_leaf(ed, "VARIABLE", token, Num(0, 1)))
    ELSE IF is_unary(string_to_op(token))
    THEN IF stack = << >>
         THEN [ed |-> ed, stack |-> stack, threw |-> TRUE]
         ELSE push_op(Pop(stack),
                      intern_op_node(ed, string_to_op(token), token,
                                     get_op_precedence(string_to_op(token)), TRUE,
                                     <<Top(stack)>>))
    ELSE IF Len(stack) < 2
         THEN [ed |-> ed, stack |-> stack, threw |-> TRUE]
         ELSE push_op(Pop(Pop(stack)),
                      intern_op_node(ed, string_to_op(token), token,
                                     get_op_precedence(string_to_op(token)), FALSE,
                                     <<Top(Pop(stack)), Top(stack)>>))

\* the end of parse: exactly one id must be left, it becomes root
parse_finish(ed, stack) ==
    IF Len(stack) # 1 THEN [ed |-> ed, threw |-> TRUE]
    ELSE [ed |-> [ed EXCEPT !.root = Top(stack)], threw |-> FALSE]

RECURSIVE parse_loop(_, _, _)

\* the loop of parse after the iteration that gave r: a throw ends parse
parse_rest(r, pf) ==
    IF r.threw THEN [ed |-> r.ed, threw |-> TRUE]
    ELSE parse_loop(r.ed, pf, r.stack)

\* the for loop of parse over the tokens of pf, then the end of parse
parse_loop(ed, pf, stack) ==
    IF pf = << >> THEN parse_finish(ed, stack)
    ELSE parse_rest(parse_step(ed, Head(pf), stack), Tail(pf))

\* eDAG::parse; returns the eDAG after the call and whether it threw
parse(ed, text) ==
    parse_loop(clear(ed), infix2postfix(tokenize(text)), << >>)

Error(what) == [kind |-> "error", what |-> what]

IsError(v) == v.kind = "error"

\* the table of built-in constants in eNode::eval
BuiltinConstants ==
    [c \in {"pi", "PI", "e", "tau", "TAU"} |->
        CASE c \in {"pi", "PI"}   -> Sym("M_PI", << >>)
          [] c = "e"              -> DFun("exp", Num(1, 1))
          [] c \in {"tau", "TAU"} -> DMul(Num(2, 1), Sym("M_PI", << >>))]

\* eNode::eval that looks a variable up in var before the built-in table
eNode_eval_bindings_first(node, var) ==
    CASE node.type = "VARIABLE" ->
            IF node.symbol \in DOMAIN var THEN var[node.symbol]
            ELSE IF node.symbol \in DOMAIN BuiltinConstants
            THEN BuiltinConstants[node.symbol]
            ELSE Error("var not found")
      [] node.type = "CONSTANT" -> node.val
      [] OTHER -> Error("can't evaluate op node without operands")

\* eNode::eval; var maps names to values
eNode_eval(node, var) ==
    CASE node.type = "VARIABLE" ->
            IF node.symbol \in DOMAIN BuiltinConstants THEN BuiltinConstants[node.symbol]
            ELSE IF node.symbol \in DOMAIN var THEN var[node.symbol]
            ELSE Error("var not found")
      [] node.type = "CONSTANT" -> node.val
      [] OTHER -> Error("can't evaluate op node without operands")

\* the set returned by get_neighbors as a vector, in ascending order
RECURSIVE SetToSeq(_)
SetToSeq(S) == IF S = {} THEN << >> ELSE <<Min(S)>> \o SetToSeq(S \ {Min(S)})

\* left fold of f over vals[j..], starting from acc
RECURSIVE FoldFrom(_, _, _, _)
FoldFrom(kind, vals, j, acc) ==
    IF j > Len(vals) THEN acc
    ELSE FoldFrom(kind, vals, j + 1,
                  IF kind = "ADD" THEN DAdd(acc, vals[j]) ELSE DMul(acc, vals[j]))

\* the switch of eval_node on the operand values
apply_op(op, op_vals) ==
    CASE op = "ADD" ->
            IF op_vals = << >> THEN Error("ADD requires >=1 op")
            ELSE FoldFrom("ADD", op_vals, 2, op_vals[1])
      [] op = "SUBTRACT" ->
            IF Len(op_vals) # 2 THEN Error("SUB requires 2 ops")
            ELSE DSub(op_vals[1], op_vals[2])
      [] op = "MULTIPLY" ->
            IF op_vals = << >> THEN Error("MUL requires >=1 op")
            ELSE FoldFrom("MULTIPLY", op_vals, 2, op_vals[1])
      [] op = "DIVIDE" ->
            IF Len(op_vals) # 2 THEN Error("DIV requires 2 ops")
            ELSE IF DIsZero(op_vals[2]) THEN Error("DIV BY ZERO")
            ELSE DDiv(op_vals[1], op_vals[2])
      [] op = "POWER" ->
            IF Len(op_vals) # 2 THEN Error("POW requires 2 ops")
            ELSE DPow(op_vals[1], op_vals[2])
      [] op = "NEGATE" ->
            IF Len(op_vals) # 1 THEN Error("NEG requires 1 op") ELSE DNeg(op_vals[1])
      [] op = "ABS" ->
            IF Len(op_vals) # 1 THEN Error("ABS requires 1 op") ELSE DAbs(op_vals[1])
      [] op \in {"SIN", "COS", "TAN", "LOG", "EXP", "SQRT"} ->
            IF Len(op_vals) # 1 THEN Error(op \o " requires 1 op")
            ELSE DFun(op_to_string(op), op_vals[1])
      [] OTHER -> Error("UNKNOWN OP")

RECURSIVE eval_node(_, _, _)
RECURSIVE eval_operands(_, _, _, _)

\* the loop filling op_vals; the first exception ends it
eval_operands(ed, eval_order, var, op_vals) ==
    IF eval_order = << >> THEN [err |-> FALSE, vals |-> op_vals]
    ELSE LET v == eval_node(ed, Head(eval_order), var)
         IN  IF IsError(v) THEN [err |-> TRUE, vals |-> <<v>>]
             ELSE eval_operands(ed, Tail(eval_order), var, Append(op_vals, v))

\* eval_node that takes the operands from the DAG successor set
eval_node_neighbors(ed, node_id, var) ==
    IF node_id \notin DOMAIN ed.nodes THEN Error("node not found")
    ELSE LET node == ed.nodes[node_id]
         IN  IF is_leaf(node) THEN eNode_eval(node, var)
             ELSE LET neighbors == SetToSeq(get_neighbors(ed.graph, node_id))
                  IN  IF neighbors = << >> THEN Error("operation node without operands")
                      ELSE LET r == eval_operands(ed, neighbors, var, << >>)
                           IN  IF r.err THEN r.vals[1]
                               ELSE apply_op(node.op, r.vals)

eval_node(ed, node_id, var) ==
    IF node_id \notin DOMAIN ed.nodes THEN Error("node not found")
    ELSE LET node == ed.nodes[node_id]
         IN  IF is_leaf(node) THEN eNode_eval(node, var)
             ELSE LET neighbors == SetToSeq(get_neighbors(ed.graph, node_id))
                  IN  IF neighbors = << >> THEN Error("operation node without operands")
                      ELSE LET eval_order ==
                                   IF node_id \in DOMAIN ed.orderedc
                                      /\ ed.orderedc[node_id] # << >>
                                   THEN ed.orderedc[node_id]
                                   ELSE neighbors
                               r == eval_operands(ed, eval_order, var, << >>)
                           IN  IF r.err THEN r.vals[1]
                               ELSE apply_op(node.op, r.vals)

\* eDAG::eval
eval(ed, var) ==
    IF ed.root = 0 THEN Error("no expression parsed") ELSE eval_node(ed, ed.root, var)

is_valid(ed) == ed.root # 0 /\ ~has_cycle(ed.graph) /\ size(ed.graph) > 0

empty(ed) == size(ed.graph) = 0

\* add_var, add_const, add_op: a node under a fresh id, in no intern table
add_node_raw(ed, node) ==
    [ed EXCEPT !.counter = ed.counter + 1,
               !.nodes = MapPut(@, ed.counter + 1, node),
               !.graph = add_node(@, ed.counter + 1)]

add_var(ed, name) ==
    add_node_raw(ed, eNode("VARIABLE", name, Num(0, 1), "UNKNOWN", 0, FALSE))

add_const(ed, name, val) ==
    add_node_raw(ed, eNode("CONSTANT", name, val, "UNKNOWN", 0, FALSE))

add_op(ed, name, op, precedence, unary) ==
    add_node_raw(ed, eNode("OPERATION", name, Num(0, 1), op, precedence, unary))

\* the text of k >= 0 in decimal, in at least w digits
RECURSIVE DecText(_, _)
DecText(k, w) ==
    IF k < 10 /\ w <= 1 THEN SubSeq("0123456789", k + 1, k + 1)
    ELSE DecText(k \div 10, w - 1) \o SubSeq("0123456789", (k % 10) + 1, (k % 10) + 1)

\* the std::string that std::to_string(double) returns, r being to_string(val)
to_string_text(r) ==
    (IF r.neg THEN "-" ELSE "") \o DecText(r.int, 1) \o "." \o DecText(r.frac, ToStringDigits)

\* the children that canonicalize clones for node id
clone_source(ed, id) ==
    IF id \in DOMAIN ed.orderedc THEN ed.orderedc[id]
    ELSE SetToSeq(get_neighbors(ed.graph, id))

RECURSIVE clone_id(_, _, _)
RECURSIVE clone_children(_, _, _, _)

\* out.intern_leaf(...) returned r
clone_leaf(r) == [ed |-> r.ed, id |-> r.id, threw |-> FALSE]

\* out.intern_op_node on the rebuilt children of r, unless cloning one threw
clone_op(node, r) ==
    IF r.threw THEN [ed |-> r.ed, id |-> 0, threw |-> TRUE]
    ELSE intern_op_node(r.ed, node.op, node.symbol, node.precedence,
                        node.is_unary, r.rebuilt)

\* the loop over children after the clone r of one child
clone_next(ed, r, rest, rebuilt) ==
    IF r.threw THEN [ed |-> r.ed, rebuilt |-> rebuilt, threw |-> TRUE]
    ELSE clone_children(ed, r.ed, rest, Append(rebuilt, r.id))

\* the loop "for c in children: rebuilt.push_back(clone_id(c))"
clone_children(ed, out, children, rebuilt) ==
    IF children = << >> THEN [ed |-> out, rebuilt |-> rebuilt, threw |-> FALSE]
    ELSE clone_next(ed, clone_id(ed, out, Head(children)), Tail(children), rebuilt)

\* the lambda clone_id of canonicalize; out carries the static counter
clone_id(ed, out, id) ==
    IF id \notin DOMAIN ed.nodes THEN [ed |-> out, id |-> 0, threw |-> TRUE]
    ELSE IF ed.nodes[id].type = "VARIABLE"
    THEN clone_leaf(intern_leaf(out, "VARIABLE", ed.nodes[id].symbol, Num(0, 1)))
    ELSE IF ed.nodes[id].type = "CONSTANT"
    THEN clone_leaf(intern_leaf(out, "CONSTANT",
                                to_string_text(to_string(ed.nodes[id].val)),
                                ed.nodes[id].val))
    ELSE clone_op(ed.nodes[id],
                  clone_children(ed, out, clone_source(ed, id), << >>))

\* out.root = clone_id(root); return out
clone_root(r) ==
    IF r.threw THEN [out |-> r.ed, threw |-> TRUE]
    ELSE [out |-> [r.ed EXCEPT !.root = r.id], threw |-> FALSE]

\* canonicalize that clones the DAG successors instead of the ordered children
canonicalize_neighbors(ed) ==
    clone_root(clone_id([ed EXCEPT !.orderedc = EmptyMap],
                        EmptyEDAG(ed.counter), ed.root))

\* eDAG::canonicalize; out.counter is the static counter after the call
canonicalize(ed) ==
    clone_root(clone_id(ed, EmptyEDAG(ed.counter), ed.root))

----------------------------------------------------------------------------
(* The eDAG driven through its public interface.                           *)

MaxLen == 3        \* every text of at most MaxLen characters is parsed
MaxCounter == 8    \* parse is not called once generate_id has passed it
MaxLoose == 1      \* add_var, add_const, add_op add at most MaxLoose nodes

InputChars == {"2", "a", "+", "-", "*", "(", ")", " "}

RECURSIVE Strings(_)
Strings(k) ==
    IF k = 0 THEN {""}
    ELSE LET S == Strings(k - 1) IN S \cup {str \o c : str \in S, c \in InputChars}

\* expressions of the README, of the tests and of the documented behaviour
Samples ==
    {"2 + 3", "2 * 3 + 4 * 5", "(2 + 3) * 4", "2 ^ 3 ^ 2", "7 - 2 - 1",
     "a - b - c", "(a+b)+c", "a+(b+c)", "(a+b)*(b+a)", "(a-b)*(b-a)",
     "a*b/(b*a)", "2 + 2.0", "0.0000001 - 0.0000002", "1.5 - 1.5000001",
     "(a-b)/(b-a) * ((a+b)/(b+a))", "x + x", "x - x", "x * x", "x / x", "2 ^ 2", "2 +", "2 3", "+", "( 2 3", "2 3 $", "2 $ 3", "1 / 0", "8 / 4 / 2",
     "abs(x + y) ^ 2 ^ 3", "-(a + b)", "2 * -3", "x + y * z", "a+b+c+d",
     "-x", "-(x+y)", "a - b", "(a) - b", "1/(x-x)",
     "pi", "2 * pi", "e + x", "x+y", "tau - TAU",
     "- - x", "sin - x", "- abs(x)", "a + b + c"}

Inputs == Samples \cup Strings(MaxLen)

\* the maps handed to eval
Bindings ==
    {EmptyMap,
     [v \in {"a", "b", "c", "d", "x", "y", "z"} |->
         CASE v = "a" -> Num(5, 1)  [] v = "b" -> Num(3, 1) [] v = "c" -> Num(2, 1)
           [] v = "d" -> Num(1, 2)  [] v = "x" -> Num(5, 1) [] v = "y" -> Num(-10, 1)
           [] v = "z" -> Num(4, 1)],
     [v \in {"pi", "e", "x"} |->
         CASE v = "pi" -> Num(3, 1) [] v = "e" -> Num(2, 1) [] v = "x" -> Num(1, 1)]}

\* the eDAG held in the variables
Ed ==
    [graph |-> graph, root |-> root, nodes |-> nodes, orderedc |-> orderedc,
     leaf_intern |-> leaf_intern, op_intern |-> op_intern, counter |-> counter]

SetEd(ed) ==
    /\ graph' = ed.graph
    /\ root' = ed.root
    /\ nodes' = ed.nodes
    /\ orderedc' = ed.orderedc
    /\ leaf_intern' = ed.leaf_intern
    /\ op_intern' = ed.op_intern
    /\ counter' = ed.counter

\* a fresh eDAG; generate_id's static counter may have been advanced by
\* eDAGs built earlier in the process
InitParseSpec ==
    /\ expr \in Inputs
    /\ postfix = << >>
    /\ node_stack = << >>
    /\ graph = EmptyDAG
    /\ root = 0
    /\ nodes = EmptyMap
    /\ orderedc = EmptyMap
    /\ leaf_intern = EmptyMap
    /\ op_intern = EmptyMap
    /\ counter \in {0, MaxCounter}
    /\ InitRat
    /\ last = Called("init", << >>, FALSE)
    /\ ret = NoRet

\* parse(expr)
DoParse ==
    /\ counter <= MaxCounter
    /\ \E r \in {parse(Ed, expr)} :
           /\ SetEd(r.ed)
           /\ last' = Called("parse", <<expr>>, r.threw)
    /\ ret' = NoRet
    /\ UNCHANGED <<parseVars, ratVars>>

\* eval(var)
DoEval(var) ==
    /\ \E v \in {eval(Ed, var)} :
           /\ ret' = v
           /\ last' = Called("eval", <<var>>, IsError(v))
    /\ UNCHANGED <<graph, edagVars, ratVars>>

\* clear()
DoClearExpr ==
    /\ SetEd(clear(Ed))
    /\ last' = Called("clear", << >>, FALSE)
    /\ ret' = NoRet
    /\ UNCHANGED <<parseVars, ratVars>>

\* the nodes that are in no intern table
Loose == DOMAIN nodes \ ({leaf_intern[k] : k \in DOMAIN leaf_intern}
                           \cup {op_intern[k] : k \in DOMAIN op_intern})

CanAdd == counter <= MaxCounter /\ Cardinality(Loose) < MaxLoose

\* add_var(name)
DoAddVar(name) ==
    /\ CanAdd
    /\ SetEd(add_var(Ed, name))
    /\ last' = Called("add_var", <<name>>, FALSE)
    /\ ret' = NoRet
    /\ UNCHANGED <<parseVars, ratVars>>

\* add_const(name, val)
DoAddConst(name, val) ==
    /\ CanAdd
    /\ SetEd(add_const(Ed, name, val))
    /\ last' = Called("add_const", <<name, val>>, FALSE)
    /\ ret' = NoRet
    /\ UNCHANGED <<parseVars, ratVars>>

\* add_op(name, op, precedence, is_unary)
DoAddOp(name) ==
    /\ CanAdd
    /\ SetEd(add_op(Ed, name, string_to_op(name),
                    get_op_precedence(string_to_op(name)),
                    is_unary(string_to_op(name))))
    /\ last' = Called("add_op", <<name>>, FALSE)
    /\ ret' = NoRet
    /\ UNCHANGED <<parseVars, ratVars>>

\* canonicalize(); ret is the eDAG returned
DoCanonicalize ==
    /\ counter <= MaxCounter
    /\ \E r \in {canonicalize(Ed)} :
           /\ counter' = r.out.counter
           /\ ret' = IF r.threw THEN NoRet ELSE [kind |-> "edag", ed |-> r.out]
           /\ last' = Called("canonicalize", << >>, r.threw)
    /\ UNCHANGED <<graph, root, nodes, orderedc, leaf_intern, op_intern,
                   parseVars, ratVars>>

NextParse ==
    \/ DoParse
    \/ \E var \in Bindings : DoEval(var)
    \/ DoClearExpr

SpecParse == InitParseSpec /\ [][NextParse]_vars

----------------------------------------------------------------------------
(* SpecBuild: an eDAG built by parse, add_var, add_const and add_op,       *)
(* cleared and canonicalized.                                              *)

BuildInputs == Samples \cup Strings(MaxLen - 1)

InitBuild ==
    /\ expr \in BuildInputs
    /\ postfix = << >>
    /\ node_stack = << >>
    /\ graph = EmptyDAG
    /\ root = 0
    /\ nodes = EmptyMap
    /\ orderedc = EmptyMap
    /\ leaf_intern = EmptyMap
    /\ op_intern = EmptyMap
    /\ counter \in {0, MaxCounter}
    /\ InitRat
    /\ last = Called("init", << >>, FALSE)
    /\ ret = NoRet

NextBuild ==
    \/ DoParse
    \/ DoClearExpr
    \/ \E name \in {"x"} : DoAddVar(name)
    \/ \E name \in {"k"}, val \in {Num(2, 1)} : DoAddConst(name, val)
    \/ \E name \in {"+"} : DoAddOp(name)
    \/ DoCanonicalize

SpecBuild == InitBuild /\ [][NextBuild]_vars

----------------------------------------------------------------------------
(* Properties of parse and eval                                            *)

\* C4: when parse(text) fails, nothing of the graph is kept: size() is 0,
\* empty() is true, the node map, the ordered-children map and both intern
\* tables are empty and root is unset.
C4_FailedParseLeavesEmpty ==
    (last.op = "parse" /\ last.threw) =>
        /\ size(graph) = 0
        /\ empty(Ed)
        /\ nodes = EmptyMap
        /\ orderedc = EmptyMap
        /\ leaf_intern = EmptyMap
        /\ op_intern = EmptyMap
        /\ root = 0

(* The value of an infix expression read by the grammar                    *)
(*     sum     ::= product (("+" | "-") product)*                          *)
(*     product ::= power (("*" | "/") power)*                              *)
(*     power   ::= atom ("^" power)?                                       *)
(*     atom    ::= numeral | name | "(" sum ")"                            *)
(* as [ok, val, j]: ok is FALSE when the tokens from j on are not of this  *)
(* form or a division by zero occurs; j is the position after the part     *)
(* read.                                                                   *)
RefFail == [ok |-> FALSE, val |-> Num(0, 1), j |-> 0]

RefTok(tk, j) == IF j <= Len(tk) THEN tk[j] ELSE ""

RECURSIVE RefSum(_, _, _)
RECURSIVE RefSumRest(_, _, _, _)
RECURSIVE RefProductRest(_, _, _, _)
RECURSIVE RefPower(_, _, _)

\* "(" sum ")", r being the sum read
RefClose(tk, r) ==
    IF r.ok /\ RefTok(tk, r.j) = ")" THEN [r EXCEPT !.j = r.j + 1] ELSE RefFail

RefAtom(tk, var, j) ==
    IF is_num(RefTok(tk, j))
    THEN [ok |-> TRUE, val |-> stod(RefTok(tk, j)), j |-> j + 1]
    ELSE IF is_var(RefTok(tk, j)) /\ string_to_op(RefTok(tk, j)) = "UNKNOWN"
    THEN IF RefTok(tk, j) \in DOMAIN var /\ RefTok(tk, j) \notin DOMAIN BuiltinConstants
         THEN [ok |-> TRUE, val |-> var[RefTok(tk, j)], j |-> j + 1]
         ELSE RefFail
    ELSE IF RefTok(tk, j) = "(" THEN RefClose(tk, RefSum(tk, var, j + 1))
    ELSE RefFail

\* b ^ e, e being the power read after "^"
RefRaise(b, e) ==
    IF ~e.ok THEN RefFail
    ELSE [ok |-> TRUE, val |-> DPow(b.val, e.val), j |-> e.j]

\* atom ("^" power)?, b being the atom read
RefExponent(tk, var, b) ==
    IF ~b.ok THEN RefFail
    ELSE IF RefTok(tk, b.j) # "^" THEN b
    ELSE RefRaise(b, RefPower(tk, var, b.j + 1))

RefPower(tk, var, j) == RefExponent(tk, var, RefAtom(tk, var, j))

\* acc t r continued, r being the power read after the operator t
RefProductStep(tk, var, acc, t, r) ==
    IF ~r.ok \/ (t = "/" /\ DIsZero(r.val)) THEN RefFail
    ELSE RefProductRest(tk, var,
             IF t = "*" THEN DMul(acc, r.val) ELSE DDiv(acc, r.val), r.j)

RefProductRest(tk, var, acc, j) ==
    IF RefTok(tk, j) \notin {"*", "/"} THEN [ok |-> TRUE, val |-> acc, j |-> j]
    ELSE RefProductStep(tk, var, acc, RefTok(tk, j), RefPower(tk, var, j + 1))

\* the rest of a product or of a sum after its first operand r
RefFirst(tk, var, r, sum) ==
    IF ~r.ok THEN RefFail
    ELSE IF sum THEN RefSumRest(tk, var, r.val, r.j)
    ELSE RefProductRest(tk, var, r.val, r.j)

RefProduct(tk, var, j) == RefFirst(tk, var, RefPower(tk, var, j), FALSE)

\* acc t r continued, r being the product read after the operator t
RefSumStep(tk, var, acc, t, r) ==
    IF ~r.ok THEN RefFail
    ELSE RefSumRest(tk, var,
             IF t = "+" THEN DAdd(acc, r.val) ELSE DSub(acc, r.val), r.j)

RefSumRest(tk, var, acc, j) ==
    IF RefTok(tk, j) \notin {"+", "-"} THEN [ok |-> TRUE, val |-> acc, j |-> j]
    ELSE RefSumStep(tk, var, acc, RefTok(tk, j), RefProduct(tk, var, j + 1))

RefSum(tk, var, j) == RefFirst(tk, var, RefProduct(tk, var, j), TRUE)

\* r if it is the reading of all of tk
RefWhole(tk, r) == IF r.ok /\ r.j = Len(tk) + 1 THEN r ELSE RefFail

\* the value of the whole text under var
RefValue(text, var) == RefWhole(tokenize(text), RefSum(tokenize(text), var, 1))

\* the value v that eval returned is the value r of the text, if it has one
RefAgrees(r, v) == r.ok => v = r.val

\* C7: for every well-formed infix expression over numerals, + - * / ^ and
\* parentheses, parse succeeds and eval returns the value of the expression
\* read with precedence additive < multiplicative < power, ^ grouping to the
\* right and + - * / to the left.
C7_ParseEvalConventional ==
    /\ (last.op = "parse" /\ RefValue(expr, EmptyMap).ok) => ~last.threw
    /\ (last.op = "eval" /\ root # 0) =>
           RefAgrees(RefValue(expr, last.args[1]), ret)

\* left fold of + (op = "ADD") or * over vals[1..k]
RECURSIVE OrdFold(_, _, _)
OrdFold(op, vals, k) ==
    IF k = 1 THEN vals[1]
    ELSE IF op = "ADD" THEN DAdd(OrdFold(op, vals, k - 1), vals[k])
    ELSE DMul(OrdFold(op, vals, k - 1), vals[k])

\* op applied to the operand values vals, in their order; the first operand
\* that failed decides the outcome
OrdApply(op, vals) ==
    IF \E k \in 1..Len(vals) : IsError(vals[k])
    THEN vals[Min({k \in 1..Len(vals) : IsError(vals[k])})]
    ELSE CASE op \in {"ADD", "MULTIPLY"} -> OrdFold(op, vals, Len(vals))
           [] op = "SUBTRACT" -> DSub(vals[1], vals[2])
           [] op = "DIVIDE" -> IF DIsZero(vals[2]) THEN Error("DIV BY ZERO")
                               ELSE DDiv(vals[1], vals[2])
           [] op = "POWER" -> DPow(vals[1], vals[2])
           [] op = "NEGATE" -> DNeg(vals[1])
           [] op = "ABS" -> DAbs(vals[1])
           [] op \in {"SIN", "COS", "TAN", "LOG", "EXP", "SQRT"} ->
                  DFun(op_to_string(op), vals[1])
           [] OTHER -> Error("UNKNOWN OP")

\* the value of node id computed over the stored ordered-children lists only
RECURSIVE OrdValue(_, _, _)
OrdValue(ed, id, var) ==
    IF is_leaf(ed.nodes[id]) THEN eNode_eval(ed.nodes[id], var)
    ELSE OrdApply(ed.nodes[id].op,
                  [k \in 1..Len(ed.orderedc[id]) |->
                      OrdValue(ed, ed.orderedc[id][k], var)])

\* C11: eval applies each operator to the operands of the node's stored
\* ordered-children list, in that order: Add and Multiply fold the whole
\* list from the left, Subtract, Divide and Power take element 0 as left and
\* element 1 as right operand, and an operand listed twice counts twice.
C11_EvalUsesOrderedChildren ==
    (last.op = "eval" /\ root # 0) => ret = OrdValue(Ed, root, last.args[1])

\* x + x has been evaluated to 2x over a single DAG edge
C11_Witness ==
    /\ last.op = "eval"
    /\ expr = "x + x"
    /\ root # 0
    /\ Len(orderedc[root]) = 2
    /\ Cardinality(get_neighbors(graph, root)) = 1
    /\ "x" \in DOMAIN last.args[1]
    /\ ret = DAdd(last.args[1]["x"], last.args[1]["x"])

\* t is a numeral, an identifier, an operator or function name, or a parenthesis
Recognized(t) ==
    is_num(t) \/ is_var(t) \/ string_to_op(t) # "UNKNOWN" \/ t \in {"(", ")"}

\* the parentheses of tk[j..] match, depth of them being open before
RECURSIVE Balanced(_, _, _)
Balanced(tk, j, depth) ==
    IF j > Len(tk) THEN depth = 0
    ELSE IF tk[j] = "(" THEN Balanced(tk, j + 1, depth + 1)
    ELSE IF tk[j] = ")" THEN depth > 0 /\ Balanced(tk, j + 1, depth - 1)
    ELSE Balanced(tk, j + 1, depth)

\* C13: parse fails whenever the token stream holds a token that is neither
\* a numeral, an identifier, a recognized operator or function name nor a
\* matched parenthesis, and after a successful parse no operation node has
\* the operator kind UNKNOWN.
C13_UnknownTokenRejected ==
    last.op = "parse" =>
        /\ (\/ \E k \in 1..Len(tokenize(expr)) : ~Recognized(tokenize(expr)[k])
            \/ ~Balanced(tokenize(expr), 1, 0)) => last.threw
        /\ ~last.threw =>
               \A id \in DOMAIN nodes :
                   nodes[id].type = "OPERATION" => nodes[id].op # "UNKNOWN"

----------------------------------------------------------------------------
(* SpecParseSteps: parse(expr) unfolded, one action per iteration of its   *)
(* for loop, so that every call of intern_leaf and intern_op_node is a     *)
(* step.  last.op is "begin" or "step" while parse is running and "parse"  *)
(* once it has returned or thrown; the locals postfix and node_stack are   *)
(* empty outside a run.                                                    *)

InParse == last.op \in {"begin", "step"}

\* clear(), tokenize, infix2postfix
DoParseBegin ==
    /\ ~InParse
    /\ counter <= MaxCounter
    /\ SetEd(clear(Ed))
    /\ postfix' = infix2postfix(tokenize(expr))
    /\ node_stack' = << >>
    /\ last' = Called("begin", <<expr>>, FALSE)
    /\ ret' = NoRet
    /\ UNCHANGED <<expr, ratVars>>

\* one iteration of the loop over postfix; ret is the id it pushed
DoParseStep ==
    /\ InParse
    /\ postfix # << >>
    /\ \E r \in {parse_step(Ed, Head(postfix), node_stack)} :
           /\ SetEd(r.ed)
           /\ IF r.threw
              THEN /\ postfix' = << >>
                   /\ node_stack' = << >>
                   /\ last' = Called("parse", <<expr>>, TRUE)
                   /\ ret' = NoRet
              ELSE /\ postfix' = Tail(postfix)
                   /\ node_stack' = r.stack
                   /\ last' = Called("step", <<Head(postfix), node_stack>>, FALSE)
                   /\ ret' = [kind |-> "id", id |-> Top(r.stack)]
    /\ UNCHANGED <<expr, ratVars>>

\* the end of parse
DoParseEnd ==
    /\ InParse
    /\ postfix = << >>
    /\ \E r \in {parse_finish(Ed, node_stack)} :
           /\ SetEd(r.ed)
           /\ last' = Called("parse", <<expr>>, r.threw)
    /\ node_stack' = << >>
    /\ ret' = NoRet
    /\ UNCHANGED <<expr, postfix, ratVars>>

NextParseSteps ==
    \/ DoParseBegin
    \/ DoParseStep
    \/ DoParseEnd

SpecParseSteps == InitParseSpec /\ [][NextParseSteps]_vars

----------------------------------------------------------------------------
(* Properties of interning                                                 *)

\* a step of the loop of parse was taken on the token Head(postfix)
Stepped ==
    /\ InParse
    /\ postfix # << >>
    /\ last'.op = "step"
    /\ postfix' = Tail(postfix)

LeafToken(t) == is_num(t) \/ (is_var(t) /\ string_to_op(t) = "UNKNOWN")

\* node is the leaf that the token t names
Denotes(node, t) ==
    IF is_num(t) THEN node.type = "CONSTANT" /\ node.val = stod(t)
    ELSE node.type = "VARIABLE" /\ node.symbol = t

\* C8: within one parse two leaf tokens get the same node id if and only if
\* they are the same variable name or numerals of equal value: the id pushed
\* for a leaf token is a node that denotes it, and when a node denoting it
\* already exists that node is returned and no node or DAG registration is
\* added.
C8_LeafSharing ==
    [][(Stepped /\ LeafToken(Head(postfix))) =>
          LET t  == Head(postfix)
              id == ret'.id
          IN  /\ id \in DOMAIN nodes'
              /\ Denotes(nodes'[id], t)
              /\ \A m \in DOMAIN nodes :
                     Denotes(nodes[m], t) =>
                         id = m /\ nodes' = nodes /\ graph' = graph]_vars

Range(seq) == {seq[k] : k \in 1..Len(seq)}

Count(seq, x) == Cardinality({k \in 1..Len(seq) : seq[k] = x})

IsPerm(s1, s2) ==
    /\ Len(s1) = Len(s2)
    /\ \A x \in Range(s1) \cup Range(s2) : Count(s1, x) = Count(s2, x)

\* the operands that a binary step takes from the stack stk
Operands(stk) == <<stk[Len(stk) - 1], stk[Len(stk)]>>

\* C9: interning Add or Multiply over child ids that an existing node of the
\* same operator holds in any order returns that node and leaves every
\* stored ordered-children list as it is; for Subtract, Divide and Power the
\* returned node holds the operands in exactly the requested order, so it is
\* never the node of the swapped operands.
C9_CommutativeInterning ==
    [][(Stepped /\ ~LeafToken(Head(postfix)) /\ ~is_unary(string_to_op(Head(postfix)))) =>
          LET op       == string_to_op(Head(postfix))
              children == Operands(node_stack)
              ordered  == IF is_assoc(op) THEN flatten(Ed, op, children, << >>)
                          ELSE children
              id       == ret'.id
          IN  /\ op \in {"ADD", "MULTIPLY"} =>
                     \A m \in DOMAIN orderedc :
                         (nodes[m].op = op /\ IsPerm(orderedc[m], ordered)) =>
                             id = m /\ orderedc' = orderedc /\ nodes' = nodes
              /\ op \in {"SUBTRACT", "DIVIDE", "POWER"} =>
                     /\ nodes'[id].op = op
                     /\ orderedc'[id] = children
                     /\ \A m \in DOMAIN orderedc :
                            (/\ nodes[m].op = op
                             /\ children[1] # children[2]
                             /\ orderedc[m] = <<children[2], children[1]>>) => id # m]_vars

\* an Add step has just returned an existing node whose stored order differs
\* from the requested one, in a graph that holds the nodes of x-y and y-x
C9_Witness ==
    /\ last.op = "step"
    /\ string_to_op(last.args[1]) = "ADD"
    /\ LET ordered == flatten(Ed, "ADD", Operands(last.args[2]), << >>)
       IN  /\ ret.id \in DOMAIN orderedc
           /\ orderedc[ret.id] # ordered
           /\ IsPerm(orderedc[ret.id], ordered)
    /\ \E m1, m2 \in DOMAIN orderedc :
           /\ m1 # m2
           /\ nodes[m1].op = "SUBTRACT"
           /\ nodes[m2].op = "SUBTRACT"
           /\ Len(orderedc[m1]) = 2
           /\ orderedc[m2] = <<orderedc[m1][2], orderedc[m1][1]>>

\* the leaf tokens of a text, in source order
LeafTokens(text) ==
    LET tk == tokenize(text)
    IN  SelectSeq(tk, LAMBDA t : LeafToken(t))

\* text is a chain of two or more distinct leaves joined by the operator
\* token o only, with any parentheses, and has a value
PureChain(text, o) ==
    LET tk == tokenize(text)
        lf == LeafTokens(text)
    IN  /\ \A k \in 1..Len(tk) : LeafToken(tk[k]) \/ tk[k] \in {o, "(", ")"}
        /\ Len(lf) >= 2
        /\ \A j, k \in 1..Len(lf) : j # k => lf[j] # lf[k]
        /\ RefValue(text, [t \in Range(lf) |-> Num(1, 1)]).ok

\* C10: the ordered-children list stored for an Add or Multiply node is
\* flattened: none of its elements is a non-unary node of the same operator;
\* so a parenthesised chain of distinct leaves under + alone (or * alone),
\* such as (a+b)+c and a+(b+c), parses to one node over the leaves in
\* left-to-right source order.
C10_Flattened ==
    /\ \A id \in DOMAIN nodes :
           (nodes[id].type = "OPERATION" /\ nodes[id].op \in {"ADD", "MULTIPLY"}) =>
               /\ id \in DOMAIN orderedc
               /\ \A k \in 1..Len(orderedc[id]) :
                      LET c == orderedc[id][k]
                      IN  ~(/\ c \in DOMAIN nodes
                            /\ nodes[c].op = nodes[id].op
                            /\ ~nodes[c].is_unary)
    /\ \A o \in {"+", "*"} :
           (last.op = "parse" /\ PureChain(expr, o)) =>
               /\ ~last.threw
               /\ nodes[root].op = string_to_op(o)
               /\ Len(orderedc[root]) = Len(LeafTokens(expr))
               /\ \A k \in 1..Len(orderedc[root]) :
                      Denotes(nodes[orderedc[root][k]], LeafTokens(expr)[k])

\* a+(b+c) has been parsed to a 3-ary node
C10_Witness ==
    /\ last.op = "parse"
    /\ ~last.threw
    /\ expr = "a+(b+c)"
    /\ Len(orderedc[root]) = 3
    /\ Cardinality({id \in DOMAIN nodes : nodes[id].op = "ADD"}) = 2

\* the operator and function tokens
OperatorTokens ==
    {"+", "-", "*", "/", "^", "neg",
     "sin", "cos", "tan", "log", "exp", "sqrt", "abs"}

\* the positions of tk that hold a "-" in unary position: the first token,
\* or one that follows "(" or an operator or function token
UnaryPositions(tk) ==
    {k \in 1..Len(tk) :
        tk[k] = "-" /\ (k = 1 \/ tk[k - 1] = "(" \/ tk[k - 1] \in OperatorTokens)}

\* the operator of the root of the parsed expression
RootOp == nodes[root].op

\* the operators of the operands of the root
RootOperandOps == {nodes[orderedc[root][k]].op : k \in DOMAIN orderedc[root]}

\* C20: infix2postfix turns a "-" token into the negate token exactly when
\* it is the first token or follows "(" or an operator or function token,
\* and leaves every other "-" a subtraction; "-x", "-(x+y)" and "2 * -3"
\* parse as negations, "a - b" and "(a) - b" as subtractions.
C20_UnaryMinusDetection ==
    /\ last.op = "begin" =>
           /\ Count(postfix, "neg") =
                  Count(tokenize(expr), "neg")
                      + Cardinality(UnaryPositions(tokenize(expr)))
           /\ Count(postfix, "-") =
                  Count(tokenize(expr), "-")
                      - Cardinality(UnaryPositions(tokenize(expr)))
    /\ (last.op = "parse" /\ expr \in {"-x", "-(x+y)", "2 * -3", "a - b", "(a) - b"}) =>
           /\ ~last.threw
           /\ expr = "-x" => RootOp = "NEGATE" /\ RootOperandOps = {"UNKNOWN"}
           /\ expr = "-(x+y)" => RootOp = "NEGATE" /\ RootOperandOps = {"ADD"}
           /\ expr = "2 * -3" => RootOp = "MULTIPLY" /\ "NEGATE" \in RootOperandOps
           /\ expr \in {"a - b", "(a) - b"} =>
                  RootOp = "SUBTRACT" /\ Len(orderedc[root]) = 2

\* "2 * -3" was parsed: its "-" follows an operator
C20_Witness ==
    /\ last.op = "parse"
    /\ ~last.threw
    /\ expr = "2 * -3"
    /\ RootOp = "MULTIPLY"
    /\ Count(infix2postfix(tokenize(expr)), "neg") = 1

UnaryToken(tk, k) ==
    \/ tk[k] \in {"neg", "sin", "cos", "tan", "log", "exp", "sqrt", "abs"}
    \/ k \in UnaryPositions(tk)

\* C24: unary operators are left-associative in the pop rule: a unary
\* operator that arrives while the stack top is a unary operator (same
\* precedence 4) pops and emits the top first.  When the first two tokens
\* are unary operators the output is empty at that moment, so the first
\* token is the first one emitted.
C24_UnaryLeftAssociative ==
    (/\ last.op = "begin"
     /\ Len(tokenize(expr)) >= 2
     /\ UnaryToken(tokenize(expr), 1)
     /\ UnaryToken(tokenize(expr), 2)) =>
        /\ postfix # << >>
        /\ Head(postfix) = (IF tokenize(expr)[1] = "-" THEN "neg" ELSE tokenize(expr)[1])

----------------------------------------------------------------------------
(* Properties of the built eDAG                                            *)

\* the ids reachable from the ids of S through the ordered-children lists
RECURSIVE OrdClosure(_, _)
OrdClosure(ed, S) ==
    LET T == S \cup UNION {Range(ed.orderedc[x]) : x \in S \cap DOMAIN ed.orderedc}
    IN  IF T = S THEN S ELSE OrdClosure(ed, T)

\* C12: in every state reached through parse, clear, add_var, add_const,
\* add_op and canonicalize, a set root means that the graph is non-empty and
\* acyclic and that every id reachable from root through the
\* ordered-children lists is in the node map; is_valid() is true after a
\* successful parse and false after a failed parse or clear.
C12_RootInvariant ==
    /\ root # 0 =>
           /\ size(graph) > 0
           /\ Acyclic(graph)
           /\ OrdClosure(Ed, {root}) \subseteq DOMAIN nodes
    /\ last.op = "parse" => (is_valid(Ed) <=> ~last.threw)
    /\ last.op = "clear" => ~is_valid(Ed)

\* add_op was called on a parsed expression with an operator node
C12_Witness ==
    /\ last.op = "add_op"
    /\ root # 0
    /\ root \in DOMAIN orderedc
    /\ is_valid(Ed)
    /\ Loose # {}

\* C18: canonicalize() on a successfully parsed eDAG leaves the instance
\* unchanged (graph, nodes, ordered children, intern tables, root), does
\* not throw, and returns a valid eDAG whose eval gives, under every
\* binding map, what eval of the source gives.
C18_CanonicalizePreserves ==
    [][(last'.op = "canonicalize" /\ is_valid(Ed)) =>
           /\ UNCHANGED <<graph, root, nodes, orderedc, leaf_intern, op_intern>>
           /\ ~last'.threw
           /\ ret'.kind = "edag"
           /\ is_valid(ret'.ed)
           /\ \A var \in Bindings : eval(ret'.ed, var) = eval(Ed, var)]_vars

\* canonicalize returned the copy of an expression whose root is an
\* operator over at least two different operands
C18_Witness ==
    /\ last.op = "canonicalize"
    /\ ~last.threw
    /\ ret.kind = "edag"
    /\ root \in DOMAIN orderedc
    /\ Cardinality(Range(orderedc[root])) >= 2
    /\ ret.ed.root \in DOMAIN ret.ed.orderedc
    /\ \E var \in Bindings : ~IsError(eval(ret.ed, var))

----------------------------------------------------------------------------
(* Properties of eval                                                      *)

\* the ids reachable from the root of ed
FromRoot(ed) == OrdClosure(ed, {ed.root}) \cap DOMAIN ed.nodes

\* some Divide node under the root has a right operand whose evaluation
\* under var gives zero
ZeroDivisor(ed, var) ==
    \E id \in FromRoot(ed) \cap DOMAIN ed.orderedc :
        /\ ed.nodes[id].op = "DIVIDE"
        /\ Len(ed.orderedc[id]) = 2
        /\ eval_node(ed, ed.orderedc[id][2], var).kind = "num"
        /\ eval_node(ed, ed.orderedc[id][2], var).n = 0

\* every variable under the root is a built-in constant or bound by var,
\* and no operation under the root is of kind UNKNOWN
Evaluable(ed, var) ==
    \A id \in FromRoot(ed) :
        /\ ed.nodes[id].type = "VARIABLE" =>
               ed.nodes[id].symbol \in DOMAIN var \cup DOMAIN BuiltinConstants
        /\ ed.nodes[id].type = "OPERATION" => ed.nodes[id].op # "UNKNOWN"

\* C21: eval never changes the eDAG, and when a Divide node under the root
\* has a right operand that evaluates to zero, eval fails and returns no
\* value; the failure is the division-by-zero error unless an unbound
\* variable or an unknown operator fails first.
C21_DivisionByZero ==
    [][last'.op = "eval" =>
           /\ UNCHANGED <<graph, edagVars>>
           /\ ZeroDivisor(Ed, last'.args[1]) =>
                  /\ IsError(ret')
                  /\ Evaluable(Ed, last'.args[1]) => ret' = Error("DIV BY ZERO")]_vars

\* "1/(x-x)" was evaluated with x bound
C21_Witness ==
    /\ last.op = "eval"
    /\ expr = "1/(x-x)"
    /\ "x" \in DOMAIN last.args[1]
    /\ ZeroDivisor(Ed, last.args[1])
    /\ ret = Error("DIV BY ZERO")

\* the names of the built-in constants
BuiltinNames == {"pi", "PI", "e", "tau", "TAU"}

\* var without its bindings for built-in names
WithoutBuiltins(var) == [v \in DOMAIN var \ BuiltinNames |-> var[v]]

\* some variable under the root is neither built-in nor bound by var
UnboundVariable(ed, var) ==
    \E id \in FromRoot(ed) :
        /\ ed.nodes[id].type = "VARIABLE"
        /\ ed.nodes[id].symbol \notin DOMAIN var \cup BuiltinNames

\* no operation under the root is of kind UNKNOWN
KnownOperators(ed) ==
    \A id \in FromRoot(ed) : ed.nodes[id].type = "OPERATION" => ed.nodes[id].op # "UNKNOWN"

\* C22: eval gives a built-in name its built-in value whatever the
\* bindings say, so the result is the one obtained without the bindings
\* for built-in names; a variable that is neither built-in nor bound makes
\* eval fail, with the unbound-variable error unless a division by zero or
\* an unknown operator fails first.
C22_BuiltinsBeforeBindings ==
    last.op = "eval" =>
        /\ ret = eval(Ed, WithoutBuiltins(last.args[1]))
        /\ (root # 0 /\ root \notin DOMAIN orderedc /\ nodes[root].symbol \in {"pi", "PI"})
               => ret = Sym("M_PI", << >>)
        /\ UnboundVariable(Ed, last.args[1]) =>
               /\ IsError(ret)
               /\ (KnownOperators(Ed) /\ ~ZeroDivisor(Ed, last.args[1]))
                      => ret = Error("var not found")

\* "2 * pi" was evaluated under bindings that give pi the value 3
C22_Witness ==
    /\ last.op = "eval"
    /\ expr = "2 * pi"
    /\ root # 0
    /\ "pi" \in DOMAIN last.args[1]
    /\ ret = DMul(Num(2, 1), Sym("M_PI", << >>))

\* C25: after a successful parse every node of the node map is reachable
\* from root, so size() is the number of leaves and operator nodes of the
\* parsed expression: 3 for "2 + 3", 5 for "x + y * z", 4 for "a + b + c".
C25_OnlyReachableNodes ==
    (last.op = "parse" /\ ~last.threw) =>
        /\ DOMAIN nodes = FromRoot(Ed)
        /\ size(graph) = Cardinality(FromRoot(Ed))
        /\ expr = "2 + 3" => size(graph) = 3
        /\ expr = "x + y * z" => size(graph) = 5
        /\ expr = "a + b + c" => size(graph) = 4

\* the number of ordered children the operator op may have
ArityFits(op, n) ==
    CASE op \in {"SUBTRACT", "DIVIDE", "POWER"} -> n = 2
      [] op \in {"NEGATE", "SIN", "COS", "TAN", "LOG", "EXP", "SQRT", "ABS"} -> n = 1
      [] op \in {"ADD", "MULTIPLY"} -> n >= 2
      [] OTHER -> TRUE

\* every operation node of ed has an ordered-children list of fitting length
ArityOK(ed) ==
    \A id \in DOMAIN ed.nodes :
        ed.nodes[id].type = "OPERATION" =>
            /\ id \in DOMAIN ed.orderedc
            /\ ArityFits(ed.nodes[id].op, Len(ed.orderedc[id]))

\* the errors of eval that are no arity errors
OtherErrors == {Error("var not found"), Error("DIV BY ZERO"), Error("UNKNOWN OP")}

\* C26: after a successful parse, and in the eDAG a successful canonicalize
\* returns, Subtract, Divide and Power nodes have exactly 2 ordered
\* children, Negate and the function nodes exactly 1, Add and Multiply
\* nodes at least 2, and eval fails on no arity check.
C26_Arity ==
    /\ (last.op = "parse" /\ ~last.threw) =>
           /\ ArityOK(Ed)
           /\ \A var \in Bindings :
                  IsError(eval(Ed, var)) => eval(Ed, var) \in OtherErrors
    /\ (last.op = "canonicalize" /\ ~last.threw) =>
           /\ ArityOK(ret.ed)
           /\ \A var \in Bindings :
                  IsError(eval(ret.ed, var)) => eval(ret.ed, var) \in OtherErrors

\* canonicalize returned the copy of "x + x", an Add over a repeated operand
C26_Witness ==
    /\ last.op = "canonicalize"
    /\ ~last.threw
    /\ expr = "x + x"
    /\ ret.kind = "edag"
    /\ ret.ed.nodes[ret.ed.root].op = "ADD"
    /\ Len(ret.ed.orderedc[ret.ed.root]) = 2

\* C28: after any sequence of parse, add_var, add_const, add_op and clear
\* no two different ids hold a Variable of the same name or a Constant of
\* the same value.
C28_SharingInvariant ==
    \A m \in DOMAIN nodes, n \in DOMAIN nodes :
        m # n =>
            /\ ~(/\ nodes[m].type = "VARIABLE" /\ nodes[n].type = "VARIABLE"
                 /\ nodes[m].symbol = nodes[n].symbol)
            /\ ~(/\ nodes[m].type = "CONSTANT" /\ nodes[n].type = "CONSTANT"
                 /\ nodes[m].val = nodes[n].val)

----------------------------------------------------------------------------
(* Two eDAG instances: the one held in the variables, and a second one     *)
(* held in ret.ed.  generate_id's counter is static, so an instance built  *)
(* later in the same process continues the ids of the first; an instance   *)
(* built by another run of the program starts again at node_1.             *)

TwoInputs == {"a+b", "b+a", "a-b", "b-a", "a*b", "b*a", "a/b", "b/a"}

InitTwo ==
    /\ expr \in TwoInputs
    /\ postfix = << >>
    /\ node_stack = << >>
    /\ graph = EmptyDAG
    /\ root = 0
    /\ nodes = EmptyMap
    /\ orderedc = EmptyMap
    /\ leaf_intern = EmptyMap
    /\ op_intern = EmptyMap
    /\ counter \in {0, MaxCounter}
    /\ InitRat
    /\ last = Called("init", << >>, FALSE)
    /\ ret = NoRet

\* eDAG other; other.parse(text), in this process or in another run
DoParseOther(text, other_run) ==
    /\ counter <= MaxCounter
    /\ \E r \in {parse(EmptyEDAG(IF other_run THEN 0 ELSE counter), text)} :
           /\ ret' = [kind |-> "edag", ed |-> r.ed]
           /\ counter' = IF other_run THEN counter ELSE r.ed.counter
           /\ last' = Called("parse_other", <<text, other_run>>, r.threw)
    /\ UNCHANGED <<graph, root, nodes, orderedc, leaf_intern, op_intern,
                   parseVars, ratVars>>

NextTwo ==
    \/ DoParse
    \/ DoClearExpr
    \/ \E text \in TwoInputs, other_run \in BOOLEAN : DoParseOther(text, other_run)

SpecTwo == InitTwo /\ [][NextTwo]_vars

\* the op_intern key under which the root of ed is interned
RootKey(ed) == CHOOSE k \in DOMAIN ed.op_intern : ed.op_intern[k] = ed.root

\* the nodes of ed without their ids: type, symbol and operator of each
NodeKinds(ed) ==
    {[type |-> ed.nodes[id].type, symbol |-> ed.nodes[id].symbol,
      op |-> ed.nodes[id].op] : id \in DOMAIN ed.nodes}

\* the operator of the root of ed and the symbols of its operands in order
RootShape(ed) ==
    [op |-> ed.nodes[ed.root].op,
     args |-> [j \in DOMAIN ed.orderedc[ed.root] |->
                  ed.nodes[ed.orderedc[ed.root][j]].symbol]]

\* C19: "a+b" parsed in one fresh eDAG and "b+a" parsed in another give
\* the same op_intern key for the Add node and the same nodes up to ids;
\* "a-b" and "b-a" give different keys and different Subtract nodes.
C19_KeysAcrossInstances ==
    (last.op = "parse_other" /\ is_valid(Ed)) =>
        /\ (expr = "a+b" /\ last.args[1] = "b+a") =>
               /\ RootKey(Ed) = RootKey(ret.ed)
               /\ NodeKinds(Ed) = NodeKinds(ret.ed)
        /\ (expr = "a-b" /\ last.args[1] = "b-a") =>
               /\ RootKey(Ed) # RootKey(ret.ed)
               /\ RootShape(Ed) # RootShape(ret.ed)

----------------------------------------------------------------------------
(* Rational from a string and from a double  (rat.cpp, utils.cpp)          *)

\* s.erase(std::remove(s.begin(), s.end(), ' '), s.end())
RECURSIVE remove_spaces(_)
remove_spaces(str) ==
    IF str = "" THEN ""
    ELSE IF CharAt(str, 0) = " " THEN remove_spaces(SubSeq(str, 2, Len(str)))
    ELSE CharAt(str, 0) \o remove_spaces(SubSeq(str, 2, Len(str)))

\* s.find('/') from position j on; Len(str) stands for npos
RECURSIVE find_slash(_, _)
find_slash(str, j) ==
    IF j >= Len(str) THEN Len(str)
    ELSE IF CharAt(str, j) = "/" THEN j
    ELSE find_slash(str, j + 1)

\* the digits of std::stoll from position j on, val being read so far
RECURSIVE stoll_digits(_, _, _)
stoll_digits(str, j, val) ==
    IF j >= Len(str) \/ ~is_digit(CharAt(str, j)) THEN Value(val, 1)
    ELSE IF val * 10 + DigitVal(CharAt(str, j)) > IntMax THEN Thrown("out_of_range")
    ELSE stoll_digits(str, j + 1, val * 10 + DigitVal(CharAt(str, j)))

\* std::stoll on a string without leading spaces: an optional sign, then
\* digits; .num of the result is the value
stoll(str) ==
    IF str # "" /\ CharAt(str, 0) \in {"+", "-"}
    THEN IF Len(str) < 2 \/ ~is_digit(CharAt(str, 1)) THEN Thrown("invalid_argument")
         ELSE IF CharAt(str, 0) = "-"
              THEN (LET r == stoll_digits(str, 1, 0)
                    IN  IF r.kind = "value" THEN Value(-r.num, 1) ELSE r)
              ELSE stoll_digits(str, 1, 0)
    ELSE IF str = "" \/ ~is_digit(CharAt(str, 0)) THEN Thrown("invalid_argument")
    ELSE stoll_digits(str, 0, 0)

\* the "n" branch: num = stoll(s), den = 1, no sign, no normalize
string_whole(n) == IF n.kind = "value" THEN Value(n.num, 1) ELSE n

\* the "n/d" branch on the two stoll results
string_fraction(neg, n, d) ==
    IF n.kind # "value" THEN n
    ELSE IF d.kind # "value" THEN d
    ELSE normalize(IF neg THEN n.num * (-1) ELSE n.num, d.num)

\* the constructor body on s, the text after the spaces and a leading '-'
\* have been removed
string_split(neg, s) ==
    IF find_slash(s, 0) = Len(s) THEN string_whole(stoll(s))
    ELSE string_fraction(neg, stoll(SubSeq(s, 1, find_slash(s, 0))),
                         stoll(SubSeq(s, find_slash(s, 0) + 2, Len(s))))

\* the constructor body on s, the text without spaces
string_signed(s) ==
    IF CharAt(s, 0) = "-" THEN string_split(TRUE, SubSeq(s, 2, Len(s)))
    ELSE string_split(FALSE, s)

\* Rational::Rational(const std::string &)
RationalOfString(copy) == string_signed(remove_spaces(copy))

\* the text "n", "-n", "n/d" or "-n/d"
RatText(neg, n, d) ==
    (IF neg THEN "-" ELSE "") \o DecText(n, 1)
        \o (IF d = 0 THEN "" ELSE "/" \o DecText(d, 1))

\* the texts handed to the constructor; d = 0 stands for no "/d" part
RatTexts ==
    {RatText(neg, n, d) : neg \in BOOLEAN, n \in 0..IntMax, d \in 0..IntMax}
        \cup {" - 1 / 2", "2 / 3"}

\* p1 = Rational(text)
DoFromString(text) ==
    /\ \E r \in {RationalOfString(text)} :
           /\ ret' = r
           /\ p1' = IF r.kind = "value" THEN Fields(r) ELSE p1
           /\ last' = Called("Rational", <<text>>, r.kind \notin {"value", "ub"})
    /\ UNCHANGED <<graph, edagVars, p2>>

\* a double target, held exactly as the fraction n / d with d > 0
Target(n, d) == [n |-> n, d |-> d]

\* the default of the parameter eps is 10 ^ -EpsDigits
EpsDigits == 10

\* the denominator limit of stern_brocot; 1000000 for 64-bit fields, and
\* here the largest limit for which left_den + right_den stays in IntRange
DenLimit == (IntMax \div 2) + 1

\* x \div 10 ^ e
RECURSIVE ShiftDown(_, _)
ShiftDown(x, e) == IF e = 0 \/ x = 0 THEN x ELSE ShiftDown(x \div 10, e - 1)

\* std::abs(d - mid_val) < eps for d = t.n / t.d and mid_val = num / den:
\* |t.n * den - num * t.d| * 10 ^ EpsDigits < t.d * den
within_eps(t, num, den) ==
    Abs(t.n * den - num * t.d) <= ShiftDown(t.d * den - 1, EpsDigits)

\* the loop of stern_brocot: one iteration on the bounds left and right;
\* the signed additions overflow (undefined behaviour) past IntMax
RECURSIVE stern_brocot_loop(_, _, _, _, _)
RECURSIVE stern_brocot_mid(_, _, _, _, _, _, _)
stern_brocot_loop(t, left_num, left_den, right_num, right_den) ==
    IF left_num + right_num > IntMax \/ left_den + right_den > IntMax
    THEN Undefined
    ELSE stern_brocot_mid(t, left_num, left_den, right_num, right_den,
             CDiv(left_num + right_num,
                  gcd(left_num + right_num, left_den + right_den)),
             CDiv(left_den + right_den,
                  gcd(left_num + right_num, left_den + right_den)))

\* the rest of the iteration on the reduced mediant mid_num / mid_den
stern_brocot_mid(t, left_num, left_den, right_num, right_den, mid_num, mid_den) ==
    IF mid_den > DenLimit THEN Value(left_num, left_den)
    ELSE IF within_eps(t, mid_num, mid_den) THEN Value(mid_num, mid_den)
    ELSE IF t.n * mid_den < mid_num * t.d
    THEN stern_brocot_loop(t, left_num, left_den, mid_num, mid_den)
    ELSE stern_brocot_loop(t, mid_num, mid_den, right_num, right_den)

\* utils::stern_brocot(d) with the default eps; the pair is a Value
RECURSIVE stern_brocot(_)
stern_brocot(t) ==
    IF t.n = 0 THEN Value(0, 1)
    ELSE IF t.n < 0 THEN stern_brocot(Target(-t.n, t.d))
    ELSE stern_brocot_loop(t, 0, 1, 1, 0)

\* num = p.first, den = p.second, normalize()
double_fields(p) == IF p.kind = "value" THEN normalize(p.num, p.den) ELSE p

\* Rational::Rational(double)
RationalOfDouble(t) == double_fields(stern_brocot(t))

\* the doubles handed to stern_brocot and to the constructor: fractions of
\* the field width, and whole numbers past it (a double that large has no
\* fractional part)
Targets ==
    {Target(n, d) : n \in (-IntMax)..IntMax, d \in 1..(DenLimit + 1)}
        \cup {Target(n, 1) : n \in (-(IntMax + 2))..(IntMax + 2)}

\* ret = utils::stern_brocot(t)
DoSternBrocot(t) ==
    /\ ret' = stern_brocot(t)
    /\ last' = Called("stern_brocot", <<t>>, FALSE)
    /\ UNCHANGED <<graph, edagVars, p1, p2>>

\* p1 = Rational(t)
DoFromDouble(t) ==
    /\ \E r \in {RationalOfDouble(t)} :
           /\ ret' = r
           /\ p1' = IF r.kind = "value" THEN Fields(r) ELSE p1
           /\ last' = Called("Rational(double)", <<t>>, FALSE)
    /\ UNCHANGED <<graph, edagVars, p2>>

NextRatText ==
    \/ \E text \in RatTexts : DoFromString(text)
    \/ \E t \in Targets : DoSternBrocot(t)
    \/ \E t \in Targets : DoFromDouble(t)

SpecRatText == InitRatSpec /\ [][NextRatText]_vars

\* C15: a Rational built from the text "n" or "n/d" with an optional
\* leading '-' is the Rational of the signed integer pair: for positive n
\* and d, Rational("-n") is Rational(-n, 1) and Rational("-n/d") is
\* Rational(-n, d), and the stored value is normalized.
C15_StringMatchesPair ==
    \A neg \in BOOLEAN, n \in 1..IntMax, d \in 0..IntMax :
        (last.op = "Rational" /\ last.args = <<RatText(neg, n, d)>>) =>
            /\ ret = RationalOf(IF neg THEN -n ELSE n, IF d = 0 THEN 1 ELSE d)
            /\ Normalized(p1)

\* C16: a Rational built from a negative double d is the negation of the
\* Rational built from |d|: its denominator is positive and its numerator
\* negative (when the Rational of |d| is not zero); Rational(-0.5) is
\* Rational(-1, 2).
C16_NegativeDoubleNegated ==
    \A t \in Targets :
        (/\ last.op = "Rational(double)"
         /\ last.args = <<t>>
         /\ t.n < 0
         /\ RationalOfDouble(Target(-t.n, t.d)).kind = "value") =>
            /\ ret = Value(-RationalOfDouble(Target(-t.n, t.d)).num,
                           RationalOfDouble(Target(-t.n, t.d)).den)
            /\ p1.den > 0
            /\ RationalOfDouble(Target(-t.n, t.d)).num # 0 => p1.num < 0

\* C17: for every non-negative target stern_brocot returns a pair: either
\* a reduced mediant with a denominator within the limit that is closer
\* than eps to the target, or the last left bound (a reduced fraction
\* within the limit that is not above the target); for the target 1/2 the
\* pair is (1, 2).
C17_SternBrocotTerminates ==
    \A t \in Targets :
        (last.op = "stern_brocot" /\ last.args = <<t>> /\ t.n >= 0) =>
            /\ ret.kind = "value"
            /\ ret.den >= 1 /\ ret.den <= DenLimit
            /\ MathGcd(ret.num, ret.den) = 1
            /\ within_eps(t, ret.num, ret.den) \/ ret.num * t.d <= t.n * ret.den
            /\ t = Target(1, 2) => ret = Value(1, 2)

----------------------------------------------------------------------------
(* dag<T>  (vibe/dag.h, vibe/dag.cpp)                                      *)
(* The class keeps the set nodes and the map adjacency_list, the fields    *)
(* nodes and adj of the record; add_node, remove_node, remove_edge and     *)
(* clear have the bodies of the DAG<T> ones above.                         *)

RECURSIVE dag_has_cycle_dfs(_, _, _, _)
RECURSIVE dag_has_cycle_neighbors(_, _, _, _)

\* the for loop of has_cycle_dfs over it->second
dag_has_cycle_neighbors(g, rem, visited, rec_stack) ==
    IF rem = {}
    THEN [r |-> FALSE, visited |-> visited, rec_stack |-> rec_stack]
    ELSE LET neighbor == Min(rem)
         IN  IF neighbor \notin visited
             THEN LET h == dag_has_cycle_dfs(g, neighbor, visited, rec_stack)
                  IN  IF h.r THEN h
                      ELSE dag_has_cycle_neighbors(g, rem \ {neighbor},
                                                   h.visited, h.rec_stack)
             ELSE IF neighbor \in rec_stack
             THEN [r |-> TRUE, visited |-> visited, rec_stack |-> rec_stack]
             ELSE dag_has_cycle_neighbors(g, rem \ {neighbor}, visited, rec_stack)

dag_has_cycle_dfs(g, node, visited, rec_stack) ==
    LET h == dag_has_cycle_neighbors(g,
                 IF node \in DOMAIN g.adj THEN g.adj[node] ELSE {},
                 visited \cup {node}, rec_stack \cup {node})
    IN  IF h.r THEN h
        ELSE [r |-> FALSE, visited |-> h.visited, rec_stack |-> h.rec_stack \ {node}]

RECURSIVE dag_has_cycle_loop(_, _, _, _)
\* the for loop of has_cycle over nodes
dag_has_cycle_loop(g, rem, visited, rec_stack) ==
    IF rem = {} THEN FALSE
    ELSE LET node == Min(rem)
         IN  IF node \notin visited
             THEN LET h == dag_has_cycle_dfs(g, node, visited, rec_stack)
                  IN  IF h.r THEN TRUE
                      ELSE dag_has_cycle_loop(g, rem \ {node}, h.visited, h.rec_stack)
             ELSE dag_has_cycle_loop(g, rem \ {node}, visited, rec_stack)

dag_has_cycle(g) == dag_has_cycle_loop(g, g.nodes, {}, {})

\* dag<T>::add_edge; returns the graph after the call and whether
\* invalid_argument was thrown
dag_add_edge(g, source, destination) ==
    LET g3 == adj_insert(add_node(add_node(g, source), destination),
                         source, destination)
    IN  IF dag_has_cycle(g3)
        THEN [g |-> adj_erase(g3, source, destination), threw |-> TRUE]
        ELSE [g |-> g3, threw |-> FALSE]

----------------------------------------------------------------------------
(* SpecVibeDag: a dag<int> driven through its public interface *)

DoDagAddEdge(s, d) ==
    /\ \E r \in {dag_add_edge(graph, s, d)} :
           /\ graph' = r.g
           /\ last' = Called("dag::add_edge", <<s, d>>, r.threw)
    /\ ret' = NoRet
    /\ UNCHANGED <<edagVars, ratVars>>

NextVibeDag ==
    \/ \E n \in Node : DoAddNode(n)
    \/ \E n \in Node : DoRemoveNode(n)
    \/ \E s \in Node, d \in Node : DoDagAddEdge(s, d)
    \/ \E s \in Node, d \in Node : DoRemoveEdge(s, d)
    \/ DoClear

SpecVibeDag == InitDag /\ [][NextVibeDag]_vars

\* C30: an add_edge call of dag<T> that throws because the edge would close
\* a cycle leaves the graph exactly as it was before the call, also when
\* the call itself added an endpoint: the node set, size() and the edges
\* are unchanged, and add_edge(X, X) on an absent X leaves X absent.
C30_VibeAddEdgeRollsBack ==
    [][(last'.op = "dag::add_edge" /\ last'.threw) =>
           /\ graph'.nodes = graph.nodes
           /\ size(graph') = size(graph)
           /\ \A s \in Node, d \in Node : has_edge(graph', s, d) = has_edge(graph, s, d)
           /\ \A n \in Node : has_node(graph', n) = has_node(graph, n)]_vars

----------------------------------------------------------------------------
(* expression_dag  (vibe/expression_dag.h, vibe/expression_dag.cpp)        *)
(* tokenize, the math_utils functions, generate_node_id, intern_leaf,      *)
(* make_op_key, intern_op_node, clear and the loop of parse_expression     *)
(* have the bodies of the eDAG ones above and are taken from there.  The   *)
(* ids "node_<k>" are modelled by k.                                       *)

\* expression_dag::infix_to_postfix: every token is classified as it
\* stands, a "-" is always the binary operator
RECURSIVE infix_to_postfix_loop(_, _, _, _, _)
infix_to_postfix_loop(tokens, j, pfix, ops, precedences) ==
    IF j >= Len(tokens) THEN drain(pfix, ops)
    ELSE LET token == tokens[j + 1]
         IN  IF is_num(token)
             THEN infix_to_postfix_loop(tokens, j + 1, Append(pfix, token), ops, precedences)
             ELSE IF string_to_op(token) # "UNKNOWN"
             THEN LET op   == string_to_op(token)
                      prec == get_op_precedence(op)
                      r    == pop_higher(pfix, ops, precedences, prec, op)
                  IN  infix_to_postfix_loop(tokens, j + 1, r.pfix,
                                            Append(r.ops, token),
                                            Append(r.precedences, prec))
             ELSE IF token = "("
             THEN infix_to_postfix_loop(tokens, j + 1, pfix,
                                        Append(ops, token), Append(precedences, 0))
             ELSE IF token = ")"
             THEN LET r  == pop_to_paren(pfix, ops, precedences)
                      o1 == IF r.ops # << >> THEN Pop(r.ops) ELSE r.ops
                      p1s == IF r.ops # << >> THEN Pop(r.precedences) ELSE r.precedences
                      fn == /\ o1 # << >>
                            /\ string_to_op(Top(o1)) # "UNKNOWN"
                            /\ is_unary(string_to_op(Top(o1)))
                  IN  IF fn
                      THEN infix_to_postfix_loop(tokens, j + 1, Append(r.pfix, Top(o1)),
                                                 Pop(o1),
                                                 IF p1s # << >> THEN Pop(p1s) ELSE p1s)
                      ELSE infix_to_postfix_loop(tokens, j + 1, r.pfix, o1, p1s)
             ELSE infix_to_postfix_loop(tokens, j + 1, Append(pfix, token), ops, precedences)

infix_to_postfix(tokens) == infix_to_postfix_loop(tokens, 0, << >>, << >>, << >>)

\* expression_dag::parse_expression; returns the expression_dag after the
\* call and whether it threw
parse_expression(ed, expression) ==
    parse_loop(clear(ed), infix_to_postfix(tokenize(expression)), << >>)

\* expression_node::evaluate; there is no table of built-in constants
expression_node_evaluate(node, variables) ==
    CASE node.type = "VARIABLE" ->
            IF node.symbol \in DOMAIN variables THEN variables[node.symbol]
            ELSE Error("Variable " \o node.symbol \o " not found in evaluation context")
      [] node.type = "CONSTANT" -> node.val
      [] OTHER -> Error("Cannot evaluate operation node without operands")

\* the switch of evaluate_node on the operand values
evaluate_switch(operation, operandValues) ==
    CASE operation = "ADD" ->
            IF Len(operandValues) # 2 THEN Error("ADD requires 2 operands")
            ELSE DAdd(operandValues[1], operandValues[2])
      [] operation = "SUBTRACT" ->
            IF Len(operandValues) # 2 THEN Error("SUBTRACT requires 2 operands")
            ELSE DSub(operandValues[1], operandValues[2])
      [] operation = "MULTIPLY" ->
            IF Len(operandValues) # 2 THEN Error("MULTIPLY requires 2 operands")
            ELSE DMul(operandValues[1], operandValues[2])
      [] operation = "DIVIDE" ->
            IF Len(operandValues) # 2 THEN Error("DIVIDE requires 2 operands")
            ELSE IF DIsZero(operandValues[2]) THEN Error("Division by zero")
            ELSE DDiv(operandValues[1], operandValues[2])
      [] operation = "POWER" ->
            IF Len(operandValues) # 2 THEN Error("POWER requires 2 operands")
            ELSE DPow(operandValues[1], operandValues[2])
      [] operation = "NEGATE" ->
            IF Len(operandValues) # 1 THEN Error("NEGATE requires 1 operand")
            ELSE DNeg(operandValues[1])
      [] operation = "ABS" ->
            IF Len(operandValues) # 1 THEN Error("ABS requires 1 operand")
            ELSE DAbs(operandValues[1])
      [] operation \in {"SIN", "COS", "TAN", "LOG", "EXP", "SQRT"} ->
            IF Len(operandValues) # 1 THEN Error(operation \o " requires 1 operand")
            ELSE DFun(op_to_string(operation), operandValues[1])
      [] OTHER -> Error("Unknown operation")

RECURSIVE evaluate_node(_, _, _)
RECURSIVE evaluate_operands(_, _, _, _)

\* the loop filling operandValues; the first exception ends it
evaluate_operands(ed, eval_order, variables, operandValues) ==
    IF eval_order = << >> THEN [err |-> FALSE, vals |-> operandValues]
    ELSE LET v == evaluate_node(ed, Head(eval_order), variables)
         IN  IF IsError(v) THEN [err |-> TRUE, vals |-> <<v>>]
             ELSE evaluate_operands(ed, Tail(eval_order), variables,
                                    Append(operandValues, v))

\* expression_dag::evaluate_node
evaluate_node(ed, nodeId, variables) ==
    IF nodeId \notin DOMAIN ed.nodes THEN Error("Node not found")
    ELSE LET node == ed.nodes[nodeId]
         IN  IF is_leaf(node) THEN expression_node_evaluate(node, variables)
             ELSE LET neighbors ==
                          SetToSeq(IF nodeId \in DOMAIN ed.graph.adj
                                   THEN ed.graph.adj[nodeId] ELSE {})
                  IN  IF neighbors = << >> THEN Error("Operation node without operands")
                      ELSE LET eval_order ==
                                   IF nodeId \in DOMAIN ed.orderedc
                                      /\ ed.orderedc[nodeId] # << >>
                                   THEN ed.orderedc[nodeId]
                                   ELSE neighbors
                               r == evaluate_operands(ed, eval_order, variables, << >>)
                           IN  IF r.err THEN r.vals[1]
                               ELSE evaluate_switch(node.op, r.vals)

\* expression_dag::evaluate
evaluate(ed, variables) ==
    IF ed.root = 0 THEN Error("No expression parsed")
    ELSE evaluate_node(ed, ed.root, variables)

----------------------------------------------------------------------------
(* SpecVibe: an expression_dag driven by parse_expression, evaluate and    *)
(* clear.                                                                  *)

VibeInputs ==
    {"1 + 2 + 3", "2 * 3 * 4", "1 + 2", "2 * 3", "(1 + 2) + 3", "1 + (2 + 3)",
     "x + y + z", "a * b * c", "a + b * c", "1 + 2 * 3 + 4", "x - y - z",
     "8 / 4 / 2", "1 / 0", "1/(x-x)", "2 ^ 3 ^ 2", "sin(x)", "abs(x - y)",
     "q + 1", "- x", "2 +"} \cup Strings(MaxLen - 1)

InitVibe ==
    /\ expr \in VibeInputs
    /\ postfix = << >>
    /\ node_stack = << >>
    /\ graph = EmptyDAG
    /\ root = 0
    /\ nodes = EmptyMap
    /\ orderedc = EmptyMap
    /\ leaf_intern = EmptyMap
    /\ op_intern = EmptyMap
    /\ counter \in {0, MaxCounter}
    /\ InitRat
    /\ last = Called("init", << >>, FALSE)
    /\ ret = NoRet

\* parse_expression(expr)
DoParseExpression ==
    /\ counter <= MaxCounter
    /\ \E r \in {parse_expression(Ed, expr)} :
           /\ SetEd(r.ed)
           /\ last' = Called("parse_expression", <<expr>>, r.threw)
    /\ ret' = NoRet
    /\ UNCHANGED <<parseVars, ratVars>>

\* evaluate(variables)
DoEvaluate(variables) ==
    /\ \E v \in {evaluate(Ed, variables)} :
           /\ ret' = v
           /\ last' = Called("evaluate", <<variables>>, IsError(v))
    /\ UNCHANGED <<graph, edagVars, ratVars>>

NextVibe ==
    \/ DoParseExpression
    \/ \E variables \in Bindings : DoEvaluate(variables)
    \/ DoClearExpr

SpecVibe == InitVibe /\ [][NextVibe]_vars

\* every variable under the root is bound by variables
AllBound(ed, variables) ==
    \A id \in FromRoot(ed) :
        ed.nodes[id].type = "VARIABLE" => ed.nodes[id].symbol \in DOMAIN variables

\* some Divide node under the root has a right operand that evaluate_node
\* gives the value zero
DivisorIsZero(ed, variables) ==
    \E id \in FromRoot(ed) \cap DOMAIN ed.orderedc :
        /\ ed.nodes[id].op = "DIVIDE"
        /\ Len(ed.orderedc[id]) = 2
        /\ evaluate_node(ed, ed.orderedc[id][2], variables) = Num(0, 1)

\* the failures of the operand-count checks of evaluate_node
OperandCountErrors ==
    {Error(o \o " requires 2 operands") :
         o \in {"ADD", "SUBTRACT", "MULTIPLY", "DIVIDE", "POWER"}}
    \cup {Error(o \o " requires 1 operand") :
         o \in {"NEGATE", "ABS", "SIN", "COS", "TAN", "LOG", "EXP", "SQRT"}}

\* C29: in the expression_dag, evaluate returns a value for every
\* successfully parsed expression whose operators are known, whose
\* variables are all bound and whose divisors are not zero; it fails on no
\* operand-count check of evaluate_node, and "1 + 2 + 3" evaluates to 6.
C29_VibeEvaluateReturnsValue ==
    (last.op = "evaluate" /\ root # 0) =>
        /\ ret \notin OperandCountErrors
        /\ (/\ KnownOperators(Ed)
            /\ AllBound(Ed, last.args[1])
            /\ ~DivisorIsZero(Ed, last.args[1])) => ~IsError(ret)
        /\ expr = "1 + 2 + 3" => ret = Num(6, 1)

====
